---- MODULE Spec2Model ----
(***************************************************************************)
(* A model of the openai-proxy request pipeline: the proxy handler of      *)
(* index.js (authentication, endpoint allowlist, scheduling, body-shape    *)
(* dispatch, response), the two-level limiter of rate-limit.js (a per-user *)
(* Bottleneck chained to a global one), the allowlist policy of            *)
(* allowlist.js and the retry loop of http-client.js.                      *)
(*                                                                         *)
(* Time is counted in reservoir refresh intervals (one minute, rate-limit.js *)
(* reservoirRefreshInterval): one step of the clock refills every limiter. *)
(***************************************************************************)
EXTENDS Integers, Sequences, FiniteSets, TLC

(***************************************************************************)
(* Bounds of the model.                                                    *)
(***************************************************************************)
\* Requests that arrive in one behaviour of the scheduling specification.
MaxReq == 3
\* Requests that arrive in one behaviour of the policy specification.
MaxPolicyReq == 1
\* Requests that arrive in one behaviour of the clock specification.
MaxClockReq == 4
MaxUploadReq == 11
MaxChunks == 3
MaxAuthReq == 2
\* The clean-up timer of a per-user limiter (60 minutes in the source) in
\* refresh intervals: the timer fires during the CleanupDelay-th interval
\* after the limiter was created.
CleanupDelay == 2
\* The RATE_LIMITING section of config.json in force: per_user and global
\* concurrent_limit, queue_size and requests_per_minute.
UserConcurrent == 1
UserQueue == 1
UserRpm == 2
GlobalConcurrent == 1
GlobalQueue == 1
GlobalRpm == 3
\* The largest maxRetries a client configuration of the retry specification
\* asks for.
MaxRetriesBound == 2

(***************************************************************************)
(* Program constants.                                                      *)
(***************************************************************************)
UPLOAD_RATE_LIMIT == 10
\* http-client.js: the maxRetries in force when the configuration gives a
\* falsy one.
DefaultMaxRetries == 3
\* http-client.js: baseDelay and maxDelay in force (milliseconds) when the
\* configuration gives none.
DefaultBaseDelay == 1000
DefaultMaxDelay == 30000

Min(a, b) == IF a <= b THEN a ELSE b
Max(a, b) == IF a >= b THEN a ELSE b

(***************************************************************************)
(* Strings the code inspects are sequences of tokens, so that prefix       *)
(* tests, substring tests, splitting and concatenation are computed.       *)
(***************************************************************************)
V1Prefix == <<"/", "v1">>
EP_chat == <<"/", "v1", "/", "chat", "/", "completions">>
EP_completions == <<"/", "v1", "/", "completions">>
EP_embeddings == <<"/", "v1", "/", "embeddings">>
EP_speech == <<"/", "v1", "/", "audio", "/", "speech">>
EP_transcriptions == <<"/", "v1", "/", "audio", "/", "transcriptions">>
EP_models == <<"/", "v1", "/", "models">>

\* endpoint.split('?')[0]
RECURSIVE BeforeQuery(_)
BeforeQuery(s) ==
  IF s = <<>> \/ Head(s) = "?" THEN <<>>
  ELSE <<Head(s)>> \o BeforeQuery(Tail(s))

\* s.startsWith(p)
StartsWith(s, p) == Len(s) >= Len(p) /\ SubSeq(s, 1, Len(p)) = p

\* s.includes(p)
Includes(s, p) ==
  \E i \in 1..(Len(s) + 1) :
    i + Len(p) - 1 <= Len(s) /\ SubSeq(s, i, i + Len(p) - 1) = p

\* String.prototype.trim on a header value: blanks are the token " ".
RECURSIVE TrimLeft(_)
TrimLeft(s) == IF s # <<>> /\ Head(s) = " " THEN TrimLeft(Tail(s)) ELSE s
RECURSIVE TrimRight(_)
TrimRight(s) ==
  IF s # <<>> /\ s[Len(s)] = " " THEN TrimRight(SubSeq(s, 1, Len(s) - 1)) ELSE s
Trim(s) == TrimRight(TrimLeft(s))

(***************************************************************************)
(* Key store (index.js VALID_KEYS): two principals.                        *)
(***************************************************************************)
Key1 == <<"k1">>
Key2 == <<"k2">>
Principals == {Key1, Key2}
LoadedKeys == [k \in Principals |-> IF k = Key1 THEN "Alice" ELSE "Bob"]
\* Keys a request can carry: the two loaded ones, one that is not loaded, a
\* value with an authorization scheme in front, and the empty string.
KeyUnknown == <<"zz">>
KeyBearer == <<"Bearer", " ", "k1">>
AllKeys == Principals \cup {KeyUnknown, KeyBearer, <<>>}

\* A lookup that finds a principal for every key.
lookupUser_anyone(keys, userKey) == "Mallory"

\* VALID_KEYS.get(userKey)
lookupUser(keys, userKey) ==
  IF userKey \in DOMAIN keys THEN keys[userKey] ELSE "undefined"

\* The header names getApiKeyFromHeaders probes, in its order.
possibleNames == <<"api-key", "x-api-key", "apikey", "authorization">>

\* JavaScript truthiness of a string: the empty string is falsy.  An absent
\* header is the empty value.
RECURSIVE FirstHeader(_, _)
FirstHeader(headers, i) ==
  IF i > Len(possibleNames) THEN <<>>
  ELSE IF headers[possibleNames[i]] # <<>> THEN Trim(headers[possibleNames[i]])
  ELSE FirstHeader(headers, i + 1)

getApiKeyFromHeaders(headers) == FirstHeader(headers, 1)

(***************************************************************************)
(* Allowlist policy (allowlist.js).  A configuration al has                *)
(*   section  : whether config.json holds an ALLOWLIST section (otherwise  *)
(*              defaultAllowlistConfig is in force),                       *)
(*   enabled, endpoints, models, default_model.                            *)
(***************************************************************************)
isAllowlistEnabled(al) == al.enabled

\* An endpoint check that lets every path through.
isEndpointAllowed_open(al, endpoint) == TRUE

isEndpointAllowed(al, endpoint) ==
  IF ~isAllowlistEnabled(al) THEN TRUE
  ELSE LET stripped == BeforeQuery(endpoint)
           normalizedEndpoint ==
             IF ~StartsWith(stripped, <<"/", "v1", "/">>)
             THEN V1Prefix \o stripped
             ELSE stripped
       IN normalizedEndpoint \in al.endpoints

\* A JSON body is a function from field names to values; a field that is
\* absent is not in its domain.  Truthy(body, f): body[f] is a truthy value.
Falsy == {"", "null"}
HasField(body, f) == f \in DOMAIN body
Truthy(body, f) == HasField(body, f) /\ body[f] \notin Falsy

isModelAllowed(al, model) ==
  IF ~isAllowlistEnabled(al) THEN TRUE
  ELSE IF model \in Falsy THEN TRUE
  ELSE model \in al.models

\* A default model that is the empty string.
getDefaultModel_none(al) == ""

getDefaultModel(al) == al.default_model

\* { ...requestBody, model: m }
WithModel(body, m) ==
  [f \in (DOMAIN body) \cup {"model"} |-> IF f = "model" THEN m ELSE body[f]]

\* validateAndNormalizeRequest: the outcome is "valid" with the normalized
\* body, "invalid" with the error, or "throws" where building the error
\* object reads config.ALLOWLIST.models and config.json has no ALLOWLIST
\* section (a TypeError).
validateAndNormalizeRequest(al, requestBody) ==
  IF ~isAllowlistEnabled(al)
  THEN [outcome |-> "valid", body |-> requestBody]
  ELSE IF Truthy(requestBody, "model")
  THEN IF ~isModelAllowed(al, requestBody["model"])
       THEN IF al.section
            THEN [outcome |-> "invalid", body |-> requestBody]
            ELSE [outcome |-> "throws", body |-> requestBody]
       ELSE [outcome |-> "valid", body |-> WithModel(requestBody, requestBody["model"])]
  ELSE [outcome |-> "valid", body |-> WithModel(requestBody, getDefaultModel(al))]

(***************************************************************************)
(* Limiters (rate-limit.js): a Bottleneck with a reservoir, maxConcurrent, *)
(* highWater and Bottleneck.strategy.OVERFLOW.  A limiter is               *)
(*   [has, reservoir, running, queue, life, stopped]                       *)
(* where queue holds request ids in submission order, life counts the      *)
(* refresh intervals since the limiter was created, and stopped says that  *)
(* stop({dropWaitingJobs: false}) was called: the limiter rejects every    *)
(* later submission and goes on with what it holds.                        *)
(***************************************************************************)
NoLimiter ==
  [has |-> FALSE, reservoir |-> 0, running |-> 0, queue |-> <<>>, life |-> 0,
   stopped |-> FALSE]
NewLimiter(rpm) ==
  [has |-> TRUE, reservoir |-> rpm, running |-> 0, queue |-> <<>>, life |-> 0,
   stopped |-> FALSE]

\* Bottleneck computeCapacity: min(maxConcurrent - running, reservoir).
Capacity(L, maxConcurrent) == Min(maxConcurrent - L.running, L.reservoir)

\* A drain that admits from the tail of the queue.
DrainAll_lifo(L, maxConcurrent) ==
  LET n == Min(Len(L.queue), Max(0, Capacity(L, maxConcurrent)))
      m == Len(L.queue)
  IN [lim |-> [L EXCEPT !.queue = SubSeq(@, 1, m - n),
                        !.running = @ + n,
                        !.reservoir = @ - n],
      admitted |-> [i \in 1..n |-> L.queue[m + 1 - i]]]

\* Bottleneck _drainAll: admit queue heads while there is capacity; each
\* admission debits the reservoir and counts as running.
DrainAll(L, maxConcurrent) ==
  LET n == Min(Len(L.queue), Max(0, Capacity(L, maxConcurrent)))
  IN [lim |-> [L EXCEPT !.queue = SubSeq(@, n + 1, Len(@)),
                        !.running = @ + n,
                        !.reservoir = @ - n],
      admitted |-> SubSeq(L.queue, 1, n)]

\* Submit without the highWater test: the queue grows without bound.
Submit_unbounded(L, maxConcurrent, highWater, r) ==
  LET d == DrainAll([L EXCEPT !.queue = Append(@, r)], maxConcurrent)
  IN [dropped |-> FALSE, lim |-> d.lim, admitted |-> d.admitted]

\* Bottleneck _addToQueue under strategy OVERFLOW: the submission that finds
\* the queue at highWater while nothing can run now is dropped; any other is
\* queued and the queue drained.
Submit(L, maxConcurrent, highWater, r) ==
  LET reachedHWM == Len(L.queue) = highWater /\ Capacity(L, maxConcurrent) < 1
  IN IF reachedHWM
     THEN [dropped |-> TRUE, lim |-> L, admitted |-> <<>>]
     ELSE LET d == DrainAll([L EXCEPT !.queue = Append(@, r)], maxConcurrent)
          IN [dropped |-> FALSE, lim |-> d.lim, admitted |-> d.admitted]

\* Bottleneck __free__: the job's unit of running is returned, then drain.
Free(L, maxConcurrent) == DrainAll([L EXCEPT !.running = @ - 1], maxConcurrent)

\* A refresh that adds the amount to what is left of the reservoir.
Refill_additive(L, amount, maxConcurrent) ==
  DrainAll([L EXCEPT !.reservoir = @ + amount], maxConcurrent)

\* Bottleneck reservoir refresh: a hard refill, then drain.
Refill(L, amount, maxConcurrent) ==
  DrainAll([L EXCEPT !.reservoir = amount], maxConcurrent)

SeqToSet(s) == {s[i] : i \in 1..Len(s)}

(***************************************************************************)
(* State.                                                                  *)
(***************************************************************************)
VARIABLES
  cfg,            \* config.json as loaded: rate limits, allowlist, retry policy
  VALID_KEYS,     \* index.js: key -> principal
  req,            \* the requests, by id in arrival order
  nextId,         \* id of the next request to arrive
  userLimiters,   \* rate-limit.js: key -> limiter
  globalLimiter,  \* rate-limit.js
  activeUploads,  \* index.js: key -> multipart parses in progress
  admissions,     \* key -> admissions the principal obtained from its
                  \* per-user limiter(s) in its current refresh interval
  call            \* http-client.js: one makeRequest call of an
                  \* OpenAIHttpClient, with its retry loop
  ,proc           \* the server process: up, draining after SIGINT/SIGTERM,
                  \* or exited; the jobs its limiters held at the signal
                  \* and the id of the first request after it; whether the
                  \* last loadKeys failed, and the keys in force before it

vars == <<cfg, VALID_KEYS, req, nextId, userLimiters, globalLimiter,
          activeUploads, admissions, call, proc>>

\* The ids of the requests of a behaviour, fixed by its initial state.
ReqIds == DOMAIN req

NoBody == [x \in {} |-> ""]

\* A request that has not arrived.  method is the HTTP method (a request
\* drawn without one is a POST); handler is the branch processRequest took;
\* closedAt is where the request stood when its client went away;
\* requestsTotal holds the status of each recordRequest call made for the
\* request and logLines the lines the handlers appended to the access log
\* for it, named by what they report.
IdleReq ==
  [pc |-> "idle", key |-> <<>>, url |-> <<>>, ctype |-> "", body |-> NoBody,
   received |-> NoBody,
   status |-> 0, error |-> "", stale |-> FALSE, admitted |-> FALSE, shape |-> "", upPath |-> <<>>, upBody |-> NoBody,
   upStatus |-> 0, files |-> {}, disk |-> {}, ran |-> FALSE,
   upCode |-> "", resHeaders |-> {}, resBody |-> NoBody, responses |-> 0,
   uploadsBefore |-> 0,
   upChunks |-> <<>>, down |-> <<>>, usage |-> [prompt |-> 0, completion |-> 0, total |-> 0],
   model |-> "", usageLog |-> <<>>, accessLog |-> <<>>,
   usageDb |-> <<>>, headers |-> <<>>, upHeaders |-> <<>>,
   streamRequests |-> 0, droppedRequests |-> <<>>, method |-> "",
   handler |-> "", closedAt |-> "", requestsTotal |-> <<>>,
   logLines |-> <<>>]

(***************************************************************************)
(* Configurations.                                                         *)
(***************************************************************************)
\* config.json with an ALLOWLIST section (the one the allowlist tests run
\* against): two endpoints, one model.
AllowlistFromFile ==
  [section |-> TRUE, enabled |-> TRUE,
   endpoints |-> {EP_chat, EP_transcriptions},
   models |-> {"gpt-4o-mini"}, default_model |-> "gpt-4o-mini"]
\* No ALLOWLIST section: allowlist.js defaultAllowlistConfig.
defaultAllowlistConfig ==
  [section |-> FALSE, enabled |-> TRUE,
   endpoints |-> {EP_chat, EP_completions, EP_embeddings, EP_speech,
                  EP_transcriptions},
   models |-> {"gpt-4o-mini", "text-embedding-3-small"},
   default_model |-> "gpt-4o-mini"]
\* An ALLOWLIST section with enabled: false.
AllowlistDisabled ==
  [section |-> TRUE, enabled |-> FALSE,
   endpoints |-> {EP_chat}, models |-> {"gpt-4o-mini"},
   default_model |-> "gpt-4o-mini"]

\* RATE_LIMITING sections: per_user and global requests_per_minute,
\* concurrent_limit and queue_size.
rateLimitConfig ==
  [uc |-> UserConcurrent, uq |-> UserQueue, urpm |-> UserRpm,
   gc |-> GlobalConcurrent, gq |-> GlobalQueue, grpm |-> GlobalRpm]

(***************************************************************************)
(* Requests the model draws.                                               *)
(***************************************************************************)
HeaderNames == {possibleNames[i] : i \in 1..Len(possibleNames)}
Header(name, value) == [n \in HeaderNames |-> IF n = name THEN value ELSE <<>>]

JsonType == "application/json"
MultipartType == "multipart/form-data"

(***************************************************************************)
(* JSON values of a request body.  A string is described by what the       *)
(* redaction reads of it: mime is the image type of a leading               *)
(* "data:image/<mime>;base64," (<<>> when the string has no such prefix),  *)
(* run the number of base64 characters that follow, pad the number of      *)
(* other characters after the run.  An object or an array holds its        *)
(* members in kids, as <<key, value>> entries (the key of an array item is *)
(* "").  A replaced string starts with "[BASE64_IMAGE_REDACTED: prefix=".  *)
(***************************************************************************)
JsonString(mime, run, pad) ==
  [t |-> "string", redacted |-> FALSE, mime |-> mime, run |-> run, pad |-> pad,
   kids |-> <<>>]
JsonObject(entries) ==
  [t |-> "object", redacted |-> FALSE, mime |-> <<>>, run |-> 0, pad |-> 0,
   kids |-> entries]
JsonArray(items) ==
  [t |-> "array", redacted |-> FALSE, mime |-> <<>>, run |-> 0, pad |-> 0,
   kids |-> [i \in DOMAIN items |-> [key |-> "", value |-> items[i]]]]
Entry(key, value) == [key |-> key, value |-> value]

\* "data:image/" has 11 characters and ";base64," has 8.
DataUrlLength(mime) == IF mime = <<>> THEN 0 ELSE 11 + Len(mime) + 8
StringLength(v) == DataUrlLength(v.mime) + v.run + v.pad

Png == <<"p", "n", "g">>
Jpeg == <<"j", "p", "e", "g">>
Jpg == <<"j", "p", "g">>
Webp == <<"w", "e", "b", "p">>
Gif == <<"g", "i", "f">>

\* /^(data:image\/(png|jpeg|jpg|webp);base64,|[A-Za-z0-9+/=]{100,})/.test(value):
\* the second alternative needs 100 base64 characters at the start, which a
\* "data:" prefix (it has a colon) rules out.
Base64Regex(value) ==
  \/ value.mime \in {Png, Jpeg, Jpg, Webp}
  \/ value.mime = <<>> /\ value.run >= 100

\* `[BASE64_IMAGE_REDACTED: prefix=${value.slice(0, 32)}...]`
RedactedString(value) ==
  [t |-> "string", redacted |-> TRUE, mime |-> value.mime,
   run |-> Min(value.run, Max(0, 32 - DataUrlLength(value.mime))),
   pad |-> 4, kids |-> <<>>]

RedactedKeys == {"image", "data", "content", "image_data"}

RECURSIVE redactBase64Images(_)
redactBase64Images(obj) ==
  IF obj.t = "array"
  THEN [obj EXCEPT !.kids =
          [i \in DOMAIN obj.kids |->
             Entry("", redactBase64Images(obj.kids[i].value))]]
  ELSE IF obj.t = "object"
  THEN [obj EXCEPT !.kids =
          [i \in DOMAIN obj.kids |->
             LET key == obj.kids[i].key
                 value == obj.kids[i].value
             IN IF /\ key \in RedactedKeys
                   /\ value.t = "string"
                   /\ StringLength(value) > 100
                   /\ Base64Regex(value)
                THEN Entry(key, RedactedString(value))
                ELSE Entry(key, redactBase64Images(value))]]
  ELSE obj

\* The body as the access log holds it.  The top-level object of the model's
\* bodies has the members model, messages and stream; model and stream are
\* short scalars, which the redaction returns as they are.
redactedBody(normalizedBody) ==
  [f \in DOMAIN normalizedBody |->
     IF f = "messages" THEN redactBase64Images(normalizedBody[f])
     ELSE normalizedBody[f]]

\* The text "hi".
Hi == JsonString(<<>>, 2, 0)

Body(model) == [f \in {"model", "messages"} |-> IF f = "model" THEN model ELSE Hi]
StreamBody(model) ==
  [f \in {"model", "messages", "stream"} |->
     IF f = "model" THEN model ELSE IF f = "stream" THEN "true" ELSE Hi]
BodyNoModel == [f \in {"messages"} |-> Hi]
FormBody(model) == [f \in {"model"} |-> model]

\* Authenticated, allowed requests of the three body shapes.
PlainInputs ==
  { [headers |-> Header("api-key", k), url |-> sh.url, ctype |-> sh.ctype,
     body |-> sh.body] :
      k \in Principals,
      sh \in { [url |-> EP_chat, ctype |-> JsonType, body |-> Body("gpt-4o-mini")],
               [url |-> EP_chat, ctype |-> JsonType, body |-> StreamBody("gpt-4o-mini")],
               [url |-> EP_transcriptions, ctype |-> MultipartType,
                body |-> FormBody("gpt-4o-mini")] } }

\* Buffered JSON requests of one principal.
ClockInputs ==
  { [headers |-> Header("api-key", Key1), url |-> EP_chat, ctype |-> JsonType,
     body |-> Body("gpt-4o-mini")] }

\* Requests that exercise the key check, the endpoint check and the model
\* policy: header sets (a padded key, a key in a later header, a key behind
\* an authorization scheme, an unknown key, a blank value, none, and an
\* unknown key in the first header with a loaded one in a later header),
\* paths (without the /v1 prefix, with a query string, not allowlisted) and
\* bodies (model allowed, not allowed, empty, absent).
NoHeaders == [n \in HeaderNames |-> <<>>]
ValidHeader == Header("api-key", Key1)
PolicyHeaders ==
  { ValidHeader, Header("x-api-key", <<" ", "k1", " ">>),
    Header("authorization", Key1), Header("authorization", KeyBearer),
    Header("api-key", KeyUnknown), Header("apikey", <<" ">>), NoHeaders,
    [Header("authorization", Key1) EXCEPT !["api-key"] = KeyUnknown] }
PolicyUrls ==
  { EP_chat, <<"/", "chat", "/", "completions">>, EP_chat \o <<"?", "x">>,
    EP_models, <<"/", "models">>, EP_models \o <<"?", "x">>, EP_embeddings,
    EP_transcriptions }
PolicyBodies ==
  { Body("gpt-4o-mini"), Body("gpt-4"), Body(""), BodyNoModel,
    StreamBody("gpt-4o-mini"), StreamBody("gpt-4"),
    [f \in {"messages", "stream"} |-> IF f = "stream" THEN "true" ELSE Hi] }
PolicyForms == { FormBody("gpt-4o-mini"), FormBody("whisper-1"), NoBody }
PolicyInputs ==
  { [headers |-> h, url |-> u, ctype |-> JsonType, body |-> Body("gpt-4o-mini")] :
      h \in PolicyHeaders, u \in {EP_chat, EP_models} }
  \cup
  { [headers |-> ValidHeader, url |-> u, ctype |-> JsonType, body |-> b] :
      u \in PolicyUrls, b \in {Body("gpt-4o-mini"), BodyNoModel} }
  \cup
  { [headers |-> ValidHeader, url |-> EP_chat, ctype |-> JsonType, body |-> b] :
      b \in PolicyBodies }
  \cup
  { [headers |-> ValidHeader, url |-> EP_transcriptions, ctype |-> MultipartType,
     body |-> b] : b \in PolicyForms }

\* What the upstream call of a request can end in, after the transport's
\* retries: a response status, or a transport error code.
UpstreamOutcomes ==
  { [status |-> 200, code |-> ""], [status |-> 500, code |-> ""],
    [status |-> 0, code |-> "ECONNREFUSED"], [status |-> 0, code |-> "ECONNRESET"],
    [status |-> 0, code |-> "TIMEOUT"] }

(***************************************************************************)
(* Helpers on the request table.                                           *)
(***************************************************************************)
Respond(rq, r, status, error) ==
  [rq EXCEPT ![r].pc = "done", ![r].status = status, ![r].error = error,
             ![r].stale = FALSE, ![r].responses = @ + 1]

\* recordRequest(method, url, status, userKey): one increment of the
\* request counter under that status.
recordRequest(rq, r, status) ==
  [rq EXCEPT ![r].requestsTotal = Append(@, status)]

\* fs.writeFileSync(LOG_PATH, line, {flag: 'a'}).
appendLog(rq, r, line) == [rq EXCEPT ![r].logLines = Append(@, line)]

\* The JSON body written with the response of request r.
WithBody(rq, r, body) == [rq EXCEPT ![r].resBody = body]

\* The handler's answer to QUEUE_OVERFLOW: res.status(503).json(...).
QueueOverflowBody ==
  [error |-> "Service temporarily overloaded. Please wait and try again.",
   retryAfter |-> 30]

\* A network-error body without the error wrapper.
networkErrorBody_flat(code) ==
  [message |-> "Failed to connect to OpenAI", type |-> "network_error",
   code |-> code]

\* The answer to an upstream error that carries no status:
\* res.status(502).json({ error: { message, type, code: error.code } }).
networkErrorBody(code) ==
  [error |-> [message |-> "Failed to connect to OpenAI",
              type |-> "network_error", code |-> code]]

\* res.setHeader('Access-Control-Allow-Origin', '*'), first statement of
\* the handler.
HandlerHeaders == { [name |-> "Access-Control-Allow-Origin", value |-> "*"] }

\* The per-user limiter has admitted these jobs (Bottleneck status RUNNING).
SetUserAdmitted(rq, ids) ==
  [i \in ReqIds |->
     IF i \in SeqToSet(ids)
     THEN [rq[i] EXCEPT !.pc = "uadmitted", !.admitted = TRUE]
     ELSE rq[i]]

\* The global limiter has admitted these jobs: their work is about to run.
SetGlobalAdmitted(rq, ids) ==
  [i \in ReqIds |->
     IF i \in SeqToSet(ids) THEN [rq[i] EXCEPT !.pc = "gadmitted"] ELSE rq[i]]

\* The work function of request r has returned or thrown: Bottleneck frees
\* the job at the global limiter, then at the per-user limiter that admitted
\* it (a limiter that was stopped and removed meanwhile is no longer the one
\* in the registry).
FreeSlots(rq, r) ==
  LET u == rq[r].key
      g == Free(globalLimiter, cfg.rl.gc)
      f == IF req[r].stale
           THEN [lim |-> userLimiters[u], admitted |-> <<>>]
           ELSE Free(userLimiters[u], cfg.rl.uc)
  IN [req |-> SetUserAdmitted(SetGlobalAdmitted(rq, g.admitted), f.admitted),
      globalLimiter |-> g.lim,
      userLimiters |-> [userLimiters EXCEPT ![u] = f.lim],
      admissions |-> [admissions EXCEPT ![u] = @ + Len(f.admitted)]]

\* express.json() parses a JSON body only; otherwise req.body || {}.
ExpressBody(rq) == IF rq.ctype = JsonType THEN rq.body ELSE NoBody

isMultipartEndpoint(rq) ==
  Includes(rq.url, <<"/", "audio", "/">>) /\ rq.ctype = MultipartType

(***************************************************************************)
(* The proxy handler (index.js app.use), up to and including               *)
(* scheduleRequest: key check, endpoint check, then submission to the      *)
(* principal's limiter, which getUserLimiter creates on first use.         *)
(***************************************************************************)
Arrive(in, cap) ==
  /\ nextId <= cap
  /\ nextId' = nextId + 1
  /\ LET r == nextId
         userKey == getApiKeyFromHeaders(in.headers)
         base == [req[r] EXCEPT !.key = userKey, !.url = in.url,
                                !.ctype = in.ctype, !.body = in.body,
                                !.received = in.body,
                                !.headers = in.headers,
                                !.method = IF "method" \in DOMAIN in
                                           THEN in.method ELSE "POST",
                                !.resHeaders = HandlerHeaders]
         user == lookupUser(VALID_KEYS, userKey)
     IN IF user = "undefined"
        THEN /\ req' = [req EXCEPT ![r] =
                          [base EXCEPT !.pc = "done", !.status = 403,
                                       !.responses = 1,
                                       !.logLines = <<"invalid-key">>,
                                       !.requestsTotal = <<403>>,
                                       !.error = "Invalid or missing API key"]]
             /\ UNCHANGED <<userLimiters, admissions>>
        ELSE IF ~isEndpointAllowed(cfg.al, in.url)
        THEN /\ req' = [req EXCEPT ![r] =
                          [base EXCEPT !.pc = "done", !.status = 403,
                                       !.responses = 1,
                                       !.logLines = <<"endpoint">>,
                                       !.requestsTotal = <<403>>,
                                       !.error = "Endpoint not allowed"]]
             /\ UNCHANGED <<userLimiters, admissions>>
        ELSE IF userLimiters[userKey].has /\ userLimiters[userKey].stopped
        THEN /\ req' = [req EXCEPT ![r] =
                          [base EXCEPT !.pc = "done", !.status = 500,
                                       !.responses = 1,
                                       !.requestsTotal = <<500>>,
                                       !.error = "Internal server error"]]
             /\ UNCHANGED <<userLimiters, admissions>>
        ELSE LET L == IF userLimiters[userKey].has
                      THEN userLimiters[userKey]
                      ELSE NewLimiter(cfg.rl.urpm)
                 s == Submit(L, cfg.rl.uc, cfg.rl.uq, r)
             IN /\ userLimiters' = [userLimiters EXCEPT ![userKey] = s.lim]
                /\ admissions' =
                     [admissions EXCEPT ![userKey] = @ + Len(s.admitted)]
                /\ req' =
                     IF s.dropped
                     THEN [req EXCEPT ![r] =
                            [base EXCEPT !.pc = "done", !.status = 503,
                                         !.responses = 1,
                                         !.droppedRequests = Append(@, "user"),
                                         !.requestsTotal = <<503>>,
                                         !.resBody = QueueOverflowBody,
                                         !.error = "QUEUE_OVERFLOW"]]
                     ELSE SetUserAdmitted(
                            [req EXCEPT ![r] = [base EXCEPT !.pc = "uqueued"]],
                            s.admitted)
  /\ UNCHANGED <<proc, call, cfg, VALID_KEYS, globalLimiter, activeUploads>>

\* userLimiter.chain(globalLimiter): a job the per-user limiter has admitted
\* is submitted to the global limiter.  Dropped there, the job fails with
\* Bottleneck's "This job has been dropped" error, its per-user slot is
\* freed and scheduleRequest turns the error into QUEUE_OVERFLOW.  A
\* stopped global limiter rejects the job with "This limiter has been
\* stopped and cannot accept new jobs.", which the handler answers 500.
\* The jobs a limiter admits are handed on by timers of equal delay, which
\* fire in the order they were set: of a principal's admitted jobs the
\* earliest is submitted first.
GlobalSubmit(r) ==
  /\ req[r].pc = "uadmitted"
  /\ \A i \in ReqIds :
       (req[i].key = req[r].key /\ req[i].pc = "uadmitted") => r <= i
  /\ LET u == req[r].key
         s == Submit(globalLimiter, cfg.rl.gc, cfg.rl.gq, r)
     IN IF globalLimiter.stopped
        THEN LET f == IF req[r].stale
                      THEN [lim |-> userLimiters[u], admitted |-> <<>>]
                      ELSE Free(userLimiters[u], cfg.rl.uc)
             IN /\ userLimiters' = [userLimiters EXCEPT ![u] = f.lim]
                /\ admissions' = [admissions EXCEPT ![u] = @ + Len(f.admitted)]
                /\ req' = SetUserAdmitted(
                            Respond(recordRequest(req, r, 500), r, 500,
                                    "Internal server error"),
                            f.admitted)
                /\ UNCHANGED globalLimiter
        ELSE IF s.dropped
        THEN LET f == Free(userLimiters[u], cfg.rl.uc)
             IN /\ userLimiters' = [userLimiters EXCEPT ![u] = f.lim]
                /\ admissions' = [admissions EXCEPT ![u] = @ + Len(f.admitted)]
                /\ req' = SetUserAdmitted(
                            WithBody(Respond(recordRequest(
                                               [req EXCEPT ![r].droppedRequests =
                                                  Append(@, "user")], r, 503),
                                             r, 503, "QUEUE_OVERFLOW"), r,
                                     QueueOverflowBody),
                            f.admitted)
                /\ UNCHANGED globalLimiter
        ELSE /\ globalLimiter' = s.lim
             /\ req' = SetGlobalAdmitted(
                         [req EXCEPT ![r].pc = "gqueued"], s.admitted)
             /\ UNCHANGED <<userLimiters, admissions>>
  /\ UNCHANGED <<proc, call, cfg, VALID_KEYS, nextId, activeUploads>>

\* Apply FreeSlots to the request table rq.
Release(rq, r) ==
  LET f == FreeSlots(rq, r)
  IN /\ req' = f.req
     /\ globalLimiter' = f.globalLimiter
     /\ userLimiters' = f.userLimiters
     /\ admissions' = f.admissions

\* Number.prototype.toString for a non-negative integer, in decimal.
DigitChar(d) ==
  CASE d = 0 -> "0" [] d = 1 -> "1" [] d = 2 -> "2" [] d = 3 -> "3"
    [] d = 4 -> "4" [] d = 5 -> "5" [] d = 6 -> "6" [] d = 7 -> "7"
    [] d = 8 -> "8" [] d = 9 -> "9"
RECURSIVE DecimalString(_)
DecimalString(n) ==
  IF n < 10 THEN <<DigitChar(n)>>
  ELSE DecimalString(n \div 10) \o <<DigitChar(n % 10)>>

\* generateIdempotencyKey: `req_${Date.now()}_${random}`, with now the
\* clock in milliseconds and random the characters of
\* Math.random().toString(36).substring(2, 15).
generateIdempotencyKey(now, random) ==
  <<"r", "e", "q", "_">> \o DecimalString(now) \o <<"_">> \o random

\* config.enableIdempotency !== false: the field is "false", "true" or
\* "undefined".
enableIdempotency(config) == config.enableIdempotency # "false"

\* The client configuration of createHttpClient when config.json sets
\* neither maxRetries nor enableIdempotency.
DefaultClientConfig ==
  [has |-> FALSE, maxRetries |-> 0, enableIdempotency |-> "undefined"]

(***************************************************************************)
(* The headers of an upstream request.  Header values are token sequences *)
(* like the client's.                                                      *)
(***************************************************************************)
OPENAI_API_KEY == <<"sk-upstream">>
Bearer(apiKey) == <<"Bearer", " ">> \o apiKey

\* A handler that hands the client's Authorization header to the client
\* library.
optionsHeaders_forward(clientHeaders) ==
  [n \in {"Authorization"} |-> clientHeaders["authorization"]]

\* options.headers of the calls made by the handlers: makeJsonRequest(req.url,
\* requestBody), makeStreamingRequest(req.url, requestBody) and
\* makeMultipartRequest(req.url, bodyBuffer, boundary) pass no options.
optionsHeaders(clientHeaders) == [n \in {} |-> <<>>]

\* requestOptions.headers as makeRequest and makeStreamingRequest build them:
\* Authorization and the shape's Content-Type and Content-Length, then
\* ...options.headers, then the generated Idempotency-Key when it is enabled
\* and none was passed (the method is always POST).  The Content-Length is
\* the byte length of the body, written as a token.
requestHeaders(apiKey, contentType, options, idempotencyKey) ==
  LET own == [n \in {"Authorization", "Content-Type", "Content-Length"} |->
                 IF n = "Authorization" THEN Bearer(apiKey)
                 ELSE IF n = "Content-Type" THEN <<contentType>>
                 ELSE <<"byteLength">>]
      spread == [n \in DOMAIN own \cup DOMAIN options |->
                   IF n \in DOMAIN options THEN options[n] ELSE own[n]]
  IN IF /\ enableIdempotency(DefaultClientConfig)
        /\ ("Idempotency-Key" \notin DOMAIN spread
              \/ spread["Idempotency-Key"] = <<>>)
     THEN [n \in DOMAIN spread \cup {"Idempotency-Key"} |->
             IF n = "Idempotency-Key" THEN idempotencyKey ELSE spread[n]]
     ELSE spread

\* The upstream headers of request r; its number stands for the clock and
\* the random part of the generated key.
UpstreamHeaders(rq, r) ==
  requestHeaders(OPENAI_API_KEY, rq[r].ctype, optionsHeaders(rq[r].headers),
                 generateIdempotencyKey(r, DecimalString(r)))

(***************************************************************************)
(* processRequest, JSON branch: handleJsonRequest validates the body and   *)
(* starts the upstream call (buffered, or streaming when stream === true). *)
(* A rejected model is answered 403 and the work returns; an exception     *)
(* leaves scheduleRequest and the handler answers 500.                     *)
(***************************************************************************)
processRequestJson(r) ==
  /\ req[r].pc = "gadmitted"
  /\ ~isMultipartEndpoint(req[r])
  /\ LET originalBody == ExpressBody(req[r])
         validation == validateAndNormalizeRequest(cfg.al, originalBody)
         run == [req EXCEPT ![r].ran = TRUE,
                            ![r].handler = "handleJsonRequest"]
     IN CASE validation.outcome = "invalid" ->
               Release(Respond(recordRequest(appendLog(run, r, "validation"),
                                             r, 403),
                               r, 403, "Model not allowed"), r)
          [] validation.outcome = "throws" ->
               Release(Respond(recordRequest(run, r, 500), r, 500,
                               "Internal server error"), r)
          [] OTHER ->
               /\ req' = [run EXCEPT
                           ![r].pc = "upstream",
                           ![r].shape =
                             IF HasField(validation.body, "stream")
                                /\ validation.body["stream"] = "true"
                             THEN "stream" ELSE "json",
                           ![r].upPath = req[r].url,
                           ![r].upBody = validation.body,
                           ![r].upHeaders = UpstreamHeaders(req, r),
                           ![r].logLines = Append(@, "request"),
                           ![r].accessLog =
                             <<redactedBody(validation.body)>>]
               /\ UNCHANGED <<globalLimiter, userLimiters, admissions>>
  /\ UNCHANGED <<proc, call, cfg, VALID_KEYS, nextId, activeUploads>>

\* handleJsonRequestWithClient: makeJsonRequest has returned or thrown; the
\* response is written, then the work returns.
StatusFor(out) == IF out.status # 0 THEN out.status ELSE 502

\* The buffered upstream call of request r has ended in out; when out has no
\* status the catch block writes the network-error body.
UpstreamEnded(rq, r, out) ==
  [rq EXCEPT ![r].upStatus = out.status, ![r].upCode = out.code,
             ![r].resBody = IF out.status = 0 THEN networkErrorBody(out.code)
                            ELSE @]

\* logToDB appends a row to usage_log unless the model is empty or "unknown"
\* or both token counts are zero.
logToDB(db, model, prompt, completion) ==
  IF model = "" \/ model = "unknown" THEN db
  ELSE IF prompt = 0 /\ completion = 0 THEN db
  ELSE Append(db, [model |-> model, prompt |-> prompt, completion |-> completion,
                   total |-> prompt + completion])

\* json.usage and json.model of a buffered upstream response; an outcome
\* drawn without them is a response whose body has neither.
ResponseUsage(out) ==
  IF "usage" \in DOMAIN out THEN out.usage ELSE [prompt |-> 0, completion |-> 0]
ResponseModel(out) == IF "model" \in DOMAIN out THEN out.model ELSE ""

\* The usage block of the buffered handlers: it runs when the call returned
\* (a status below 400; makeJsonRequest throws otherwise), with the model
\* the handler resolved.
UsageParsed(rq, r, out, model) ==
  IF out.status = 0 \/ out.status >= 400 THEN rq
  ELSE LET prompt == ResponseUsage(out).prompt
           completion == ResponseUsage(out).completion
       IN [rq EXCEPT ![r].model = model,
                     ![r].usage = [prompt |-> prompt, completion |-> completion,
                                   total |-> prompt + completion],
                     ![r].usageDb = logToDB(@, model, prompt, completion)]

jsonResponse(r, out) ==
  /\ req[r].pc = "upstream"
  /\ req[r].shape = "json"
  /\ Release(Respond(recordRequest(
                       UsageParsed(UpstreamEnded(req, r, out), r, out,
                                   IF ResponseModel(out) # ""
                                   THEN ResponseModel(out) ELSE "unknown"),
                       r, StatusFor(out)),
                     r, StatusFor(out),
                     IF out.status = 200 THEN "" ELSE
                     IF out.status # 0 THEN "upstream_error" ELSE "network_error"), r)
  /\ UNCHANGED <<proc, call, cfg, VALID_KEYS, nextId, activeUploads>>

\* handleStreamingRequestWithClient: makeStreamingRequest issues one
\* https.request (counted in streamRequests) and resolves when the upstream
\* headers arrive (whatever the status) or rejects on a transport error.  The handlers on the upstream stream are installed and the work
\* returns while the stream is still being received.
SSEHeaders ==
  { [name |-> "Content-Type", value |-> "text/event-stream"],
    [name |-> "Cache-Control", value |-> "no-cache"],
    [name |-> "Connection", value |-> "keep-alive"],
    [name |-> "Access-Control-Allow-Origin", value |-> "*"],
    [name |-> "X-Accel-Buffering", value |-> "no"] }

streamHeaders(r, out) ==
  /\ req[r].pc = "upstream"
  /\ req[r].shape = "stream"
  /\ IF out.status # 0
     THEN Release([req EXCEPT ![r].pc = "streaming",
                              ![r].streamRequests = @ + 1,
                              ![r].requestsTotal = Append(@, out.status),
                              ![r].upStatus = out.status,
                              ![r].status = IF out.status >= 400 THEN 0 ELSE 200,
                              ![r].resHeaders =
                                 IF out.status >= 400 THEN @ ELSE @ \cup SSEHeaders,
                              ![r].model =
                                 IF Truthy(req[r].upBody, "model")
                                 THEN req[r].upBody["model"] ELSE "unknown"], r)
     ELSE Release(Respond([req EXCEPT ![r].streamRequests = @ + 1,
                                      ![r].requestsTotal = Append(@, 502),
                                      ![r].upCode = out.code],
                          r, 502, "streaming_error"), r)
  /\ UNCHANGED <<proc, call, cfg, VALID_KEYS, nextId, activeUploads>>

\* The upstream stream ends: res.end(), or for an error status the
\* collected body is written with that status.
streamEnd(r) ==
  /\ req[r].pc = "streaming"
  /\ req' = Respond([req EXCEPT ![r].usageLog =
                       IF req[r].upStatus < 400 /\ req[r].usage.total > 0
                       THEN Append(@, [model |-> req[r].model,
                                       prompt |-> req[r].usage.prompt,
                                       completion |-> req[r].usage.completion])
                       ELSE @,
                                ![r].usageDb =
                       IF req[r].upStatus < 400 /\ req[r].usage.total > 0
                       THEN logToDB(@, req[r].model, req[r].usage.prompt,
                                    req[r].usage.completion)
                       ELSE @],
                    r, IF req[r].upStatus >= 400 THEN req[r].upStatus ELSE 200,
                    IF req[r].upStatus >= 400 THEN "upstream_error" ELSE "")
  /\ UNCHANGED <<proc, call, cfg, VALID_KEYS, nextId, userLimiters, globalLimiter,
                 activeUploads, admissions>>

\* A chunk of the upstream stream is a sequence of lines (chunk.toString()
\* split at "\n").  A line is
\*   [data, json, usage, model]
\* data: it starts with "data: " and is not "data: [DONE]"; json: what
\* follows "data: " parses; usage: the parsed object's usage, [has FALSE]
\* when it has none; model: its model, "" when it has none.
NoUsage == [has |-> FALSE, prompt |-> 0, completion |-> 0, total |-> 0]
DataLine(usage, model) ==
  [data |-> TRUE, json |-> TRUE, usage |-> usage, model |-> model]
Usage(p, c, t) == [has |-> TRUE, prompt |-> p, completion |-> c, total |-> t]
DoneLine == [data |-> FALSE, json |-> FALSE, usage |-> NoUsage, model |-> ""]
BrokenLine == [data |-> TRUE, json |-> FALSE, usage |-> NoUsage, model |-> ""]

\* a || b on token counts.
Or(a, b) == IF a # 0 THEN a ELSE b

\* A scan that reads no usage and no model.
scanLine_blind(acc, line) == acc

\* The body of the loop over the lines of a chunk: acc is
\* [usage |-> [prompt, completion, total], model].
scanLine(acc, line) ==
  IF line.data /\ line.json
  THEN [usage |->
          IF line.usage.has
          THEN [prompt |-> Or(line.usage.prompt, acc.usage.prompt),
                completion |-> Or(line.usage.completion, acc.usage.completion),
                total |-> Or(line.usage.total, acc.usage.total)]
          ELSE acc.usage,
        model |-> IF line.model # "" THEN line.model ELSE acc.model]
  ELSE acc

RECURSIVE scanChunk(_, _)
scanChunk(acc, lines) ==
  IF lines = <<>> THEN acc
  ELSE scanChunk(scanLine(acc, Head(lines)), Tail(lines))

\* response.stream.on('data') for a stream answered below 400: the chunk is
\* written downstream, then scanned.
streamData(r, chunk) ==
  /\ req[r].pc = "streaming"
  /\ req[r].upStatus < 400
  /\ Len(req[r].upChunks) < MaxChunks
  /\ LET acc == scanChunk([usage |-> req[r].usage, model |-> req[r].model], chunk)
     IN req' = [req EXCEPT ![r].upChunks = Append(@, chunk),
                           ![r].down = Append(@, chunk),
                           ![r].usage = acc.usage,
                           ![r].model = acc.model]
  /\ UNCHANGED <<proc, call, cfg, VALID_KEYS, nextId, userLimiters, globalLimiter,
                 activeUploads, admissions>>

(***************************************************************************)
(* processRequest, multipart branch: the upload slot is taken, multer is   *)
(* started with a callback, and the work function returns at once.         *)
(***************************************************************************)
UploadsInProgress(u) ==
  { i \in ReqIds : req[i].key = u /\ isMultipartEndpoint(req[i])
                   /\ req[i].pc \in {"parsing", "upstream"} }

processRequestMultipart(r) ==
  /\ req[r].pc = "gadmitted"
  /\ isMultipartEndpoint(req[r])
  /\ LET u == req[r].key
         run == [req EXCEPT ![r].ran = TRUE,
                            ![r].handler = "handleMultipartRequest",
                            ![r].uploadsBefore = Cardinality(UploadsInProgress(u))]
     IN IF activeUploads[u] >= UPLOAD_RATE_LIMIT
        THEN /\ Release(Respond(recordRequest(appendLog(run, r, "upload-limit"),
                                                  r, 429),
                                    r, 429, "Too many concurrent uploads"), r)
             /\ UNCHANGED activeUploads
        ELSE /\ activeUploads' = [activeUploads EXCEPT ![u] = @ + 1]
             /\ Release([run EXCEPT ![r].pc = "parsing"], r)
  /\ UNCHANGED <<proc, call, cfg, VALID_KEYS, nextId>>

\* A cleanupFiles that unlinks nothing.
cleanupFiles_keep(uploadedFiles, disk) == disk

\* The cleanupFiles closure of handleMultipartRequest: every file of
\* req.files that exists is unlinked.  disk is the set of temp files
\* present; the result is the set present afterwards.
cleanupFiles(uploadedFiles, disk) ==
  disk \ {f \in uploadedFiles : f \in disk}

\* cleanupFiles is called for request r.
CleanedUp(rq, r) ==
  [rq EXCEPT ![r].disk = cleanupFiles(rq[r].files, rq[r].disk)]

\* The multer callback: the upload slot is released; a parse error (after
\* which multer has removed what it had stored) is answered 400; otherwise
\* req.files are on disk and handleMultipartRequest validates the model
\* (only when the allowlist is enabled and the form has a model), rebuilds
\* the form (a failure there is answered 500) and starts the upstream
\* call.  Each early exit calls cleanupFiles first.
uploadParsed(r, err, files) ==
  /\ req[r].pc = "parsing"
  /\ LET u == req[r].key
         validation == validateAndNormalizeRequest(cfg.al, req[r].body)
         staged == [req EXCEPT ![r].files = files, ![r].disk = files]
     IN /\ activeUploads' =
             [activeUploads EXCEPT ![u] = IF @ > 0 THEN @ - 1 ELSE @]
        /\ req' =
             IF err = "multer"
             THEN Respond(recordRequest(req, r, 400), r, 400,
                          "Failed to parse multipart data")
             ELSE IF isAllowlistEnabled(cfg.al) /\ Truthy(req[r].body, "model")
                     /\ validation.outcome = "invalid"
             THEN Respond(CleanedUp(staged, r), r, 403, "Model not allowed")
             ELSE IF isAllowlistEnabled(cfg.al) /\ Truthy(req[r].body, "model")
                     /\ validation.outcome = "throws"
             THEN Respond(CleanedUp(staged, r), r, 400, "Invalid request format")
             ELSE IF err = "processing"
             THEN Respond(recordRequest(CleanedUp(staged, r), r, 500), r, 500,
                          "Internal server error processing upload")
             ELSE [staged EXCEPT ![r].pc = "upstream", ![r].shape = "multipart",
                                 ![r].logLines = Append(@, "request"),
                                 ![r].upPath = req[r].url,
                                 ![r].upHeaders = UpstreamHeaders(req, r),
                                 ![r].upBody = req[r].body]
  /\ UNCHANGED <<proc, call, cfg, VALID_KEYS, nextId, userLimiters, globalLimiter, admissions>>

\* handleMultipartRequestWithClient: makeMultipartRequest has returned or
\* thrown; the response is written.
multipartResponse(r, out) ==
  /\ req[r].pc = "upstream"
  /\ req[r].shape = "multipart"
  /\ req' = Respond(recordRequest(
                      UsageParsed(CleanedUp(UpstreamEnded(req, r, out), r), r, out,
                                  IF Truthy(req[r].upBody, "model")
                                  THEN req[r].upBody["model"] ELSE "unknown"),
                      r, StatusFor(out)),
                    r, StatusFor(out),
                    IF out.status = 200 THEN "" ELSE
                    IF out.status # 0 THEN "upstream_error" ELSE "network_error")
  /\ UNCHANGED <<proc, call, cfg, VALID_KEYS, nextId, userLimiters, globalLimiter,
                 activeUploads, admissions>>

(***************************************************************************)
(* Timers.                                                                 *)
(***************************************************************************)
\* One refresh interval passes: every limiter's reservoir refresh fires (a
\* hard refill, then a drain), and each principal's minute starts anew.  A
\* limiter in the last interval before its clean-up timer is stopped by
\* that timer first.
UserTick(u) ==
  IF userLimiters[u].has
  THEN Refill([userLimiters[u] EXCEPT !.life = @ + 1], cfg.rl.urpm, cfg.rl.uc)
  ELSE [lim |-> userLimiters[u], admitted |-> <<>>]

RECURSIVE Concat(_, _)
Concat(f, S) ==
  IF S = {} THEN <<>>
  ELSE LET u == CHOOSE x \in S : TRUE IN f[u] \o Concat(f, S \ {u})

MinutePasses ==
  /\ \A u \in AllKeys :
       userLimiters[u].has => userLimiters[u].life < CleanupDelay - 1
  /\ LET t == [u \in AllKeys |-> UserTick(u)]
         g == Refill(globalLimiter, cfg.rl.grpm, cfg.rl.gc)
     IN /\ userLimiters' = [u \in AllKeys |-> t[u].lim]
        /\ admissions' = [u \in AllKeys |-> Len(t[u].admitted)]
        /\ globalLimiter' = g.lim
        /\ req' = SetGlobalAdmitted(
                    SetUserAdmitted(req, Concat([u \in AllKeys |-> t[u].admitted],
                                                AllKeys)),
                    g.admitted)
  /\ UNCHANGED <<proc, call, cfg, VALID_KEYS, nextId, activeUploads>>

\* The setTimeout armed by getUserLimiter fires: limiter.stop() drops the
\* jobs that are queued or admitted but not yet executing (they fail with
\* "This limiter has been stopped.", which the handler answers 500), the
\* executing jobs run on, and the limiter leaves the registry.
Cleanup(u) ==
  /\ userLimiters[u].has
  /\ userLimiters[u].life = CleanupDelay - 1
  /\ userLimiters' = [userLimiters EXCEPT ![u] = NoLimiter]
  /\ req' = [i \in ReqIds |->
               IF req[i].key = u /\ req[i].pc \in {"uqueued", "uadmitted"}
               THEN [req[i] EXCEPT !.pc = "done", !.status = 500,
                                   !.requestsTotal = Append(@, 500),
                                   !.error = "Internal server error"]
               ELSE IF req[i].key = u /\ req[i].pc \in {"gqueued", "gadmitted", "upstream"}
                       /\ req[i].shape # "multipart"
               THEN [req[i] EXCEPT !.stale = TRUE]
               ELSE req[i]]
  /\ UNCHANGED <<proc, call, cfg, VALID_KEYS, nextId, globalLimiter, activeUploads, admissions>>

(***************************************************************************)
(* The key store (index.js loadKeys, run at start and by fs.watchFile      *)
(* whenever keys.json changes).  keys.json is unreadable, or not JSON, or  *)
(* JSON that is not an array, or an array of entries [key, name].          *)
(***************************************************************************)
\* new Map(entries): a later entry for a key replaces an earlier one.
RECURSIVE KeyMap(_)
KeyMap(entries) ==
  IF entries = <<>> THEN [k \in {} |-> ""]
  ELSE LET front == KeyMap(SubSeq(entries, 1, Len(entries) - 1))
           last == entries[Len(entries)]
       IN [k \in DOMAIN front \cup {last.key} |->
             IF k = last.key THEN last.name ELSE front[k]]

KeysFiles ==
  { [state |-> st, entries |-> <<>>] :
      st \in {"unreadable", "malformed", "not-array"} }
  \cup
  { [state |-> "array", entries |-> e] :
      e \in { <<[key |-> Key1, name |-> "Alice"], [key |-> Key2, name |-> "Bob"]>>,
              <<[key |-> Key1, name |-> "Alice"]>>,
              <<[key |-> Key2, name |-> "Bob"], [key |-> Key2, name |-> "Carol"]>>,
              <<>> } }

\* loadKeys: readFileSync, JSON.parse and parsed.map inside one try; the
\* catch logs the error and assigns VALID_KEYS = new Map().
loadKeys(file) ==
  /\ proc.phase # "exited"
  /\ VALID_KEYS' = IF file.state = "array" THEN KeyMap(file.entries)
                   ELSE [k \in {} |-> ""]
  /\ proc' = [proc EXCEPT !.reload = [failed |-> file.state # "array",
                                      before |-> VALID_KEYS]]
  /\ UNCHANGED <<call, cfg, req, nextId, userLimiters, globalLimiter,
                 activeUploads, admissions>>

(***************************************************************************)
(* Shutdown (index.js SIGINT / SIGTERM handlers, rate-limit.js shutdown).  *)
(***************************************************************************)
ProcUp ==
  [phase |-> "up", held |-> {}, first |-> 0,
   reload |-> [failed |-> FALSE, before |-> LoadedKeys]]

\* The jobs a limiter holds: queued in it, or running in it (submitted by
\* scheduleRequest, work function not yet returned).
HeldJobs ==
  { r \in ReqIds :
      \/ req[r].pc \in {"uqueued", "uadmitted", "gqueued", "gadmitted"}
      \/ req[r].pc = "upstream" /\ req[r].shape \in {"json", "stream"} }

\* SIGINT or SIGTERM: shutdown() calls stop({dropWaitingJobs: false}) on the
\* global limiter and then on every limiter of the registry.  Each stop
\* makes the limiter reject later submissions and queues a job of lowest
\* priority and weight 0 behind the limiter's queue.
shutdown ==
  /\ proc.phase = "up"
  /\ proc' = [proc EXCEPT !.phase = "draining", !.held = HeldJobs,
                          !.first = nextId]
  /\ globalLimiter' = [globalLimiter EXCEPT !.stopped = TRUE]
  /\ userLimiters' =
       [u \in AllKeys |->
          IF userLimiters[u].has
          THEN [userLimiters[u] EXCEPT !.stopped = TRUE]
          ELSE userLimiters[u]]
  /\ UNCHANGED <<call, cfg, VALID_KEYS, req, nextId, activeUploads, admissions>>

\* The stop job of a per-user limiter runs once that limiter's queue is
\* empty; the limiter is chained, so the job is submitted to the stopped
\* global limiter and rejected: Promise.all rejects.  With no per-user
\* limiter, the global limiter's stop job resolves when it is the only job
\* left.
DrainSettled ==
  \/ \E u \in AllKeys :
       /\ userLimiters[u].has /\ userLimiters[u].stopped
       /\ userLimiters[u].queue = <<>>
  \/ /\ \A u \in AllKeys : ~(userLimiters[u].has /\ userLimiters[u].stopped)
     /\ globalLimiter.queue = <<>> /\ globalLimiter.running = 0

\* await shutdownRateLimiter() is over (shutdown() catches the rejection):
\* process.exit(0).
exit ==
  /\ proc.phase = "draining"
  /\ DrainSettled
  /\ proc' = [proc EXCEPT !.phase = "exited"]
  /\ UNCHANGED <<call, cfg, VALID_KEYS, req, nextId, userLimiters, globalLimiter,
                 activeUploads, admissions>>

(***************************************************************************)
(* Upstream transport (http-client.js): OpenAIHttpClient and the retry     *)
(* loop of makeRequest.  An attempt ends in a response [status, code ""]   *)
(* or in a transport error [status 0, code]; retryAfter is the value of    *)
(* the response's retry-after header, a string of characters (empty when   *)
(* the header is absent).                                                  *)
(***************************************************************************)
DefaultRetryOn == {429, 500, 502, 503, 504}

\* A client configuration is [has, maxRetries]: has tells whether the
\* maxRetries field is present.
\* The constructor: config.maxRetries || 3, config.retryOn || [...]; an
\* absent field and 0 are falsy.
RetryConfig(config) ==
  [maxRetries |-> IF ~config.has \/ config.maxRetries = 0
                  THEN DefaultMaxRetries ELSE config.maxRetries,
   baseDelay |-> IF "baseDelay" \in DOMAIN config /\ config.baseDelay # 0
                 THEN config.baseDelay ELSE DefaultBaseDelay,
   maxDelay |-> IF "maxDelay" \in DOMAIN config /\ config.maxDelay # 0
                THEN config.maxDelay ELSE DefaultMaxDelay,
   retryOn |-> DefaultRetryOn]

\* parseInt(s, 10): leading blanks are skipped, a sign is read, then the
\* decimal digits that follow; NaN when there is no digit.
Digits == {"0", "1", "2", "3", "4", "5", "6", "7", "8", "9"}
DigitValue(c) ==
  CASE c = "0" -> 0 [] c = "1" -> 1 [] c = "2" -> 2 [] c = "3" -> 3
    [] c = "4" -> 4 [] c = "5" -> 5 [] c = "6" -> 6 [] c = "7" -> 7
    [] c = "8" -> 8 [] c = "9" -> 9
RECURSIVE LeadingDigits(_)
LeadingDigits(s) ==
  IF s = <<>> \/ Head(s) \notin Digits THEN <<>>
  ELSE <<Head(s)>> \o LeadingDigits(Tail(s))
RECURSIVE DecimalValue(_)
DecimalValue(ds) ==
  IF ds = <<>> THEN 0
  ELSE 10 * DecimalValue(SubSeq(ds, 1, Len(ds) - 1)) + DigitValue(ds[Len(ds)])
parseInt(s) ==
  LET t == TrimLeft(s)
      signed == t # <<>> /\ Head(t) \in {"-", "+"}
      ds == LeadingDigits(IF signed THEN Tail(t) ELSE t)
  IN [nan |-> ds = <<>>,
      value |-> IF signed /\ Head(t) = "-" THEN 0 - DecimalValue(ds)
                ELSE DecimalValue(ds)]

RECURSIVE Pow2(_)
Pow2(n) == IF n = 0 THEN 1 ELSE 2 * Pow2(n - 1)

\* A retry delay that never looks at the response headers.
calculateRetryDelay_backoffOnly(retryConfig, attempt, lastError, jitter) ==
  Min(retryConfig.baseDelay * Pow2(attempt) + jitter, retryConfig.maxDelay)

\* A retry delay without the Math.min against maxDelay.
calculateRetryDelay_uncapped(retryConfig, attempt, lastError, jitter) ==
  LET retryAfter == parseInt(lastError.retryAfter)
  IN IF lastError.code = "" /\ lastError.retryAfter # <<>> /\ ~retryAfter.nan
     THEN retryAfter.value * 1000
     ELSE retryConfig.baseDelay * Pow2(attempt) + jitter

\* calculateRetryDelay: lastError is the outcome of the attempt that has
\* just failed (only a response has headers), jitter the value of
\* Math.random() * 1000.
calculateRetryDelay(retryConfig, attempt, lastError, jitter) ==
  LET retryAfter == parseInt(lastError.retryAfter)
  IN IF lastError.code = "" /\ lastError.retryAfter # <<>> /\ ~retryAfter.nan
     THEN Min(retryAfter.value * 1000, retryConfig.maxDelay)
     ELSE Min(retryConfig.baseDelay * Pow2(attempt) + jitter,
              retryConfig.maxDelay)

\* A retry test that does not look at the status.
shouldRetry_any(retryConfig, statusCode, attempt) ==
  attempt < retryConfig.maxRetries

shouldRetry(retryConfig, statusCode, attempt) ==
  attempt < retryConfig.maxRetries /\ statusCode \in retryConfig.retryOn

retryableErrorCodes == {"ECONNRESET", "ECONNREFUSED", "TIMEOUT"}

shouldRetryError(retryConfig, code, attempt) ==
  IF attempt >= retryConfig.maxRetries THEN FALSE
  ELSE code \in retryableErrorCodes

\* options.method || 'POST': an absent method is the empty string.
RequestMethod(options) == IF options.method = "" THEN "POST" ELSE options.method

\* The Idempotency-Key header of requestOptions as makeRequest leaves it
\* before the loop: the caller's when it is a non-empty string, a generated
\* one when idempotency is enabled and the method is POST, PUT or PATCH,
\* and otherwise none (the empty string).
IdempotencyHeader(config, options, now, random) ==
  IF enableIdempotency(config) /\ RequestMethod(options) \in {"POST", "PUT", "PATCH"}
     /\ options.idempotencyKey = <<>>
  THEN generateIdempotencyKey(now, random)
  ELSE options.idempotencyKey

\* An attempt that is given a key of its own.
attemptKey_fresh(c) ==
  generateIdempotencyKey(c.attempt, <<"x">>)

\* The Idempotency-Key an attempt carries: transport.executeRequest is given
\* the one requestOptions object on every iteration.
attemptKey(c) == c.idempotencyKey

DefaultOptions == [method |-> "", idempotencyKey |-> <<>>]
NoStamp == [now |-> 0, random |-> <<"a">>]

\* Error objects and results of a call.  attempt, the loop index at which
\* the object was made, stands for its identity; outcome is what the
\* transport settled with (a response with its status and headers, or the
\* error it rejected with).
NoOutcome == [status |-> 0, code |-> "", retryAfter |-> <<>>]
NoError == [kind |-> "none", attempt |-> 0, outcome |-> NoOutcome]
\* new Error(`HTTP ${statusCode}`) with statusCode and response set.
httpError(result, attempt) ==
  [kind |-> "http", attempt |-> attempt, outcome |-> result]
\* The error the transport rejected with, as caught.
transportError(error, attempt) ==
  [kind |-> "transport", attempt |-> attempt, outcome |-> error]

\* A makeRequest that throws the error kept from the attempt before.
makeRequestSettles_stale(lastError, out, attempt) ==
  IF lastError.kind # "none" THEN lastError
  ELSE IF out.code = ""
       THEN [kind |-> "response", attempt |-> attempt, outcome |-> out]
       ELSE transportError(out, attempt)

\* How makeRequest leaves its loop on an attempt that is not retried, with
\* lastError the error kept from the attempts before: `return result` for a
\* response, `throw error` for a rejection.
makeRequestSettles(lastError, out, attempt) ==
  IF out.code = ""
  THEN [kind |-> "response", attempt |-> attempt, outcome |-> out]
  ELSE transportError(out, attempt)

\* makeJsonRequest and makeMultipartRequest: a response of status 400 or
\* more is thrown as an error carrying it; anything else passes through.
makeJsonRequest(settled) ==
  IF settled.kind = "response" /\ settled.outcome.status >= 400
  THEN httpError(settled.outcome, settled.attempt)
  ELSE settled

\* No makeRequest call is under way.
IdleCall ==
  [pc |-> "idle",
   configured |-> [has |-> FALSE, maxRetries |-> 0, enableIdempotency |-> "undefined"],
   retryConfig |-> RetryConfig([has |-> FALSE, maxRetries |-> 0]),
   attempt |-> 0, log |-> <<>>, waits |-> <<>>,
   options |-> DefaultOptions, stamp |-> NoStamp, previous |-> NoStamp,
   idempotencyKey |-> <<>>, sent |-> <<>>,
   lastError |-> NoError, surfaced |-> NoError]

\* makeRequest is entered on a client built from config, with the caller's
\* options, at clock value stamp.now with stamp.random the next value of
\* the random generator; previous is the stamp of the client's previous
\* call.  The Idempotency-Key is fixed, the loop starts at attempt 0 and
\* the first transport.executeRequest is issued.
NewCall(config, options, stamp, previous) ==
  LET c == [pc |-> "attempting", configured |-> config,
            retryConfig |-> RetryConfig(config), attempt |-> 0, log |-> <<>>,
            waits |-> <<>>, options |-> options, stamp |-> stamp,
            previous |-> previous,
            idempotencyKey |->
              IdempotencyHeader(config, options, stamp.now, stamp.random),
            sent |-> <<>>, lastError |-> NoError, surfaced |-> NoError]
  IN [c EXCEPT !.sent = <<attemptKey(c)>>]

\* transport.executeRequest settles with outcome out: a response that is not
\* to be retried is returned, an error that is not to be retried is thrown,
\* and otherwise makeRequest sleeps for the retry delay, which waits
\* records.  lastError is assigned before a retry and in the catch block;
\* surfaced is what the caller of makeJsonRequest receives.
executeRequest(out, jitter) ==
  /\ call.pc = "attempting"
  /\ LET logged == [call EXCEPT !.log = Append(@, out)]
         delay == calculateRetryDelay(call.retryConfig, call.attempt, out, jitter)
         settled == makeJsonRequest(
                      makeRequestSettles(call.lastError, out, call.attempt))
         kept == [logged EXCEPT !.lastError =
                    IF out.code = "" THEN httpError(out, call.attempt)
                    ELSE transportError(out, call.attempt)]
     IN call' =
          IF out.code = ""
          THEN IF ~shouldRetry(call.retryConfig, out.status, call.attempt)
               THEN [logged EXCEPT !.pc = "returned", !.surfaced = settled]
               ELSE IF call.attempt < call.retryConfig.maxRetries
               THEN [kept EXCEPT !.pc = "sleeping", !.waits = Append(@, delay)]
               ELSE [kept EXCEPT !.pc = "thrown", !.surfaced = kept.lastError]
          ELSE IF ~shouldRetryError(call.retryConfig, out.code, call.attempt)
               THEN [kept EXCEPT !.pc = "thrown", !.surfaced = settled]
               ELSE IF call.attempt < call.retryConfig.maxRetries
               THEN [kept EXCEPT !.pc = "sleeping", !.waits = Append(@, delay)]
               ELSE [kept EXCEPT !.pc = "thrown", !.surfaced = kept.lastError]
  /\ UNCHANGED <<proc, cfg, VALID_KEYS, req, nextId, userLimiters, globalLimiter,
                 activeUploads, admissions>>

\* The sleep ends: attempt++ and the next transport.executeRequest is
\* issued.
sleepDone ==
  /\ call.pc = "sleeping"
  /\ LET c == [call EXCEPT !.pc = "attempting", !.attempt = @ + 1]
     IN call' = [c EXCEPT !.sent = Append(@, attemptKey(c))]
  /\ UNCHANGED <<proc, cfg, VALID_KEYS, req, nextId, userLimiters, globalLimiter,
                 activeUploads, admissions>>

\* What one attempt can end in.
AttemptOutcomes ==
  { [status |-> st, code |-> "", retryAfter |-> <<>>] :
      st \in {200, 201, 400, 401, 403, 404, 429, 500, 502, 503, 504} }
  \cup
  { [status |-> 0, code |-> c, retryAfter |-> <<>>] :
      c \in {"ECONNRESET", "ECONNREFUSED", "TIMEOUT", "ENOTFOUND"} }

\* Outcomes with and without a retry-after header: whole seconds below and
\* above maxDelay, zero, a number followed by other characters, and a value
\* that is not a number.
RetryAfterValues ==
  { <<>>, <<"1">>, <<"0">>, <<"4", "0">>, <<"2", "x">>, <<"x">> }
TimedOutcomes ==
  { [status |-> st, code |-> "", retryAfter |-> ra] :
      st \in {200, 400, 429, 503}, ra \in RetryAfterValues }
  \cup
  { [status |-> 0, code |-> c, retryAfter |-> <<>>] :
      c \in {"ECONNRESET", "ENOTFOUND"} }
\* Values of Math.random() * 1000.
Jitters == {0, 999}

\* The client configurations: maxRetries absent, or 0..MaxRetriesBound.
ClientConfigs ==
  { [has |-> FALSE, maxRetries |-> 0, enableIdempotency |-> "undefined"] }
  \cup { [has |-> TRUE, maxRetries |-> m, enableIdempotency |-> "undefined"] :
            m \in 0..MaxRetriesBound }

\* Client configurations and caller options for the Idempotency-Key: the
\* switch absent, on and off; the method absent, mutating and not; a key
\* supplied by the caller or not.
IdempotencyConfigs ==
  { [has |-> FALSE, maxRetries |-> 0, enableIdempotency |-> e] :
      e \in {"undefined", "true", "false"} }
CallOptions ==
  { [method |-> m, idempotencyKey |-> k] :
      m \in {"", "POST", "PATCH", "GET"}, k \in {<<>>, <<"c", "1">>} }
\* Clock values and random strings at the start of a call.
Stamps == { [now |-> n, random |-> r] : n \in {9, 10}, r \in {<<"a">>, <<"0", "a">>} }
IdempotencyOutcomes ==
  { [status |-> st, code |-> "", retryAfter |-> <<>>] : st \in {200, 503} }
  \cup { [status |-> 0, code |-> "ECONNRESET", retryAfter |-> <<>>] }

(***************************************************************************)
(* Specifications.                                                         *)
(***************************************************************************)
InitStateOf(ids) ==
  /\ VALID_KEYS = LoadedKeys
  /\ req = [i \in ids |-> IdleReq]
  /\ nextId = 1
  /\ userLimiters = [u \in AllKeys |-> NoLimiter]
  /\ globalLimiter = NewLimiter(cfg.rl.grpm)
  /\ activeUploads = [u \in AllKeys |-> 0]
  /\ admissions = [u \in AllKeys |-> 0]
  /\ proc = ProcUp

InitState == InitStateOf(1..Max(MaxReq, Max(MaxPolicyReq, MaxClockReq)))

Init ==
  /\ cfg = [rl |-> rateLimitConfig, al |-> AllowlistFromFile]
  /\ InitState
  /\ call = IdleCall

JsonPipeline(outcomes) ==
  \/ \E r \in ReqIds : GlobalSubmit(r)
  \/ \E r \in ReqIds : processRequestJson(r)
  \/ \E r \in ReqIds, out \in outcomes : jsonResponse(r, out)

StreamPipeline(outcomes) ==
  \/ \E r \in ReqIds, out \in outcomes : streamHeaders(r, out)
  \/ \E r \in ReqIds : streamEnd(r)

\* req.files after multer: no file part, or two.
UploadedFiles == { {}, {"t1", "t2"} }
ParseOutcomes == {"none", "multer", "processing"}

UploadPipeline(outcomes, parseErrors, uploads) ==
  \/ \E r \in ReqIds : processRequestMultipart(r)
  \/ \E r \in ReqIds, err \in parseErrors, files \in uploads :
       uploadParsed(r, err, files)
  \/ \E r \in ReqIds, out \in outcomes : multipartResponse(r, out)

Timers ==
  \/ MinutePasses
  \/ \E u \in AllKeys : Cleanup(u)

Success == {[status |-> 200, code |-> ""]}

\* Scheduling of the three request shapes within one refresh interval.
Next ==
  \/ \E in \in PlainInputs : Arrive(in, MaxReq)
  \/ JsonPipeline(Success)
  \/ StreamPipeline(Success)
  \/ UploadPipeline(Success, {"none"}, {{"t1"}})

Spec == Init /\ [][Next]_vars

\* Buffered JSON requests over many refresh intervals, with the reservoir
\* refresh and the limiter clean-up timers.
NextClock ==
  \/ \E in \in ClockInputs : Arrive(in, MaxClockReq)
  \/ JsonPipeline(Success)
  \/ Timers

SpecClock == Init /\ [][NextClock]_vars

\* The key check, the endpoint check and the model policy, under each of
\* the allowlist configurations, with every outcome of the upstream call.
InitPolicy ==
  /\ cfg \in { [rl |-> rateLimitConfig, al |-> a] :
                a \in {AllowlistFromFile, defaultAllowlistConfig, AllowlistDisabled} }
  /\ InitState
  /\ call = IdleCall

NextPolicy ==
  \/ \E in \in PolicyInputs : Arrive(in, MaxPolicyReq)
  \/ JsonPipeline(UpstreamOutcomes)
  \/ StreamPipeline(UpstreamOutcomes)
  \/ UploadPipeline(UpstreamOutcomes, ParseOutcomes, UploadedFiles)

SpecPolicy == InitPolicy /\ [][NextPolicy]_vars

\* One makeRequest call on a client of each configuration, with every
\* outcome of every attempt.
InitRetry ==
  /\ cfg = [rl |-> rateLimitConfig, al |-> AllowlistFromFile]
  /\ InitState
  /\ call \in {NewCall(c, DefaultOptions, NoStamp, NoStamp) : c \in ClientConfigs}

NextRetry ==
  \/ \E out \in AttemptOutcomes : executeRequest(out, 0)
  \/ sleepDone

SpecRetry == InitRetry /\ [][NextRetry]_vars

\* One makeRequest call on a client of the default configuration, with
\* retry-after headers on the responses and jitter in the backoff.
InitBackoff ==
  /\ cfg = [rl |-> rateLimitConfig, al |-> AllowlistFromFile]
  /\ InitState
  /\ call = NewCall(DefaultClientConfig, DefaultOptions, NoStamp, NoStamp)

NextBackoff ==
  \/ \E out \in TimedOutcomes, jitter \in Jitters : executeRequest(out, jitter)
  \/ sleepDone

SpecBackoff == InitBackoff /\ [][NextBackoff]_vars

\* Buffered JSON requests of two principals, with a shutdown signal at any
\* moment; an exited process takes no step.
ShutdownInputs ==
  { [headers |-> Header("api-key", k), url |-> EP_chat, ctype |-> JsonType,
     body |-> Body("gpt-4o-mini")] : k \in Principals }

NextShutdown ==
  \/ /\ proc.phase # "exited"
     /\ \/ \E in \in ShutdownInputs : Arrive(in, MaxReq)
        \/ JsonPipeline(Success)
  \/ shutdown
  \/ exit

SpecShutdown == Init /\ [][NextShutdown]_vars

\* Multipart uploads of one principal while the upstream calls are still
\* under way, under the rate limits rate-limit.js falls back to, but with
\* per_user.concurrent_limit 1.
uploadRateLimitConfig ==
  [uc |-> 1, uq |-> 10, urpm |-> 60, gc |-> 40, gq |-> 100, grpm |-> 800]
UploadInputs ==
  { [headers |-> Header("api-key", Key1), url |-> EP_transcriptions,
     ctype |-> MultipartType, body |-> FormBody("gpt-4o-mini")] }

InitUpload ==
  /\ cfg = [rl |-> uploadRateLimitConfig, al |-> AllowlistFromFile]
  /\ InitStateOf(1..MaxUploadReq)
  /\ call = IdleCall

NextUpload ==
  \/ \E in \in UploadInputs : Arrive(in, MaxUploadReq)
  \/ \E r \in ReqIds : GlobalSubmit(r)
  \/ \E r \in ReqIds : processRequestMultipart(r)
  \/ \E r \in ReqIds : uploadParsed(r, "none", {"t1"})

SpecUpload == InitUpload /\ [][NextUpload]_vars

\* Streaming requests with the chunks of the upstream stream.
StreamInputs ==
  { [headers |-> ValidHeader, url |-> EP_chat, ctype |-> JsonType, body |-> b] :
      b \in { StreamBody("gpt-4o-mini"),
              [f \in {"messages", "stream"} |->
                 IF f = "stream" THEN "true" ELSE Hi] } }
Chunks ==
  { <<DataLine(Usage(2, 1, 3), "")>>,
    <<DataLine(Usage(0, 1, 1), "gpt-4o-mini")>>,
    <<DataLine(NoUsage, "gpt-4o-mini-2024-07-18"), BrokenLine, DoneLine>> }

NextStream ==
  \/ \E in \in StreamInputs : Arrive(in, MaxPolicyReq)
  \/ \E r \in ReqIds : GlobalSubmit(r)
  \/ \E r \in ReqIds : processRequestJson(r)
  \/ StreamPipeline(UpstreamOutcomes)
  \/ \E r \in ReqIds, chunk \in Chunks : streamData(r, chunk)

SpecStream == InitPolicy /\ [][NextStream]_vars

\* The key check while keys.json is rewritten and reloaded.
KeysInputs ==
  { [headers |-> Header("api-key", k), url |-> EP_chat, ctype |-> JsonType,
     body |-> Body("gpt-4o-mini")] : k \in Principals \cup {KeyUnknown} }

NextKeys ==
  \/ \E in \in KeysInputs : Arrive(in, MaxPolicyReq)
  \/ \E file \in KeysFiles : loadKeys(file)
  \/ JsonPipeline(Success)

SpecKeys == Init /\ [][NextKeys]_vars

\* One makeRequest call on clients with idempotency on and off, with and
\* without a caller's key, after a previous call of the same client (the
\* clock does not run backwards).
InitIdempotency ==
  /\ cfg = [rl |-> rateLimitConfig, al |-> AllowlistFromFile]
  /\ InitState
  /\ \E c \in IdempotencyConfigs, o \in CallOptions, st \in Stamps :
       \E prev \in {x \in Stamps : x.now <= st.now} :
         call = NewCall(c, o, st, prev)

NextIdempotency ==
  \/ \E out \in IdempotencyOutcomes : executeRequest(out, 0)
  \/ sleepDone

SpecIdempotency == InitIdempotency /\ [][NextIdempotency]_vars

(***************************************************************************)
(* Properties: scheduling.                                                 *)
(***************************************************************************)
\* An upstream call of request r is in flight: the call has been started and
\* its response (for a stream, the end of the stream) has not arrived.
InFlight(r) == req[r].pc \in {"upstream", "streaming"}
InFlightOf(u) == {r \in ReqIds : InFlight(r) /\ req[r].key = u}

\* C1: at every instant, each principal has at most per_user.concurrent_limit
\* upstream calls in flight (buffered JSON, streaming and multipart counted).
C1_InFlightPerUser ==
  \A u \in Principals : Cardinality(InFlightOf(u)) <= cfg.rl.uc

\* C2: at every instant, the upstream calls in flight across all principals
\* number at most global.concurrent_limit.
C2_InFlightTotal ==
  Cardinality({r \in ReqIds : InFlight(r)}) <= cfg.rl.gc

\* The requests of principal u that have been submitted to its limiter.
Mine(u) == {r \in ReqIds : req[r].pc # "idle" /\ req[r].key = u}
Rank(u, r) == Cardinality({s \in Mine(u) : s <= r})
\* The per-user limiter has admitted r and r's work has not returned.
HoldsUserSlot(r) ==
  \/ req[r].pc \in {"uadmitted", "gqueued", "gadmitted"}
  \/ req[r].pc = "upstream" /\ req[r].shape \in {"json", "stream"}
Accepted(r) == req[r].pc = "uqueued" \/ HoldsUserSlot(r)
\* r was dropped by the per-user limiter on submission.
Overflowed(r) ==
  /\ req[r].pc = "done" /\ req[r].status = 503
  /\ req[r].error = "QUEUE_OVERFLOW" /\ ~req[r].admitted
NoneCompleted(u) == \A r \in Mine(u) : Accepted(r) \/ Overflowed(r)
ReservoirNotBinding(u) ==
  userLimiters[u].reservoir >= cfg.rl.uc - userLimiters[u].running

C4_AdmissionsPerMinute ==
  \A u \in Principals : admissions[u] <= cfg.rl.urpm

(***************************************************************************)
(* Properties: policy.                                                     *)
(***************************************************************************)
Arrived(r) == req[r].pc # "idle"
KnownKey(r) == req[r].key \in DOMAIN VALID_KEYS
\* No scheduler admission and no upstream call has happened for r.
Untouched(r) ==
  ~req[r].admitted /\ req[r].upPath = <<>> /\ req[r].shape = ""
  /\ req[r].upBody = NoBody

C5_State ==
  /\ \A r \in ReqIds :
       (Arrived(r) /\ ~KnownKey(r)) =>
         /\ req[r].pc = "done" /\ req[r].status = 403
         /\ req[r].error = "Invalid or missing API key"
         /\ Untouched(r)
  /\ \A k \in AllKeys \ DOMAIN VALID_KEYS :
       ~userLimiters[k].has /\ admissions[k] = 0 /\ activeUploads[k] = 0
C5_Step ==
  (nextId' = nextId + 1 /\ req'[nextId].key \notin DOMAIN VALID_KEYS) =>
    UNCHANGED <<userLimiters, globalLimiter, admissions, activeUploads>>

\* C5: a request whose extracted key is unknown or blank is answered 403
\* "Invalid or missing API key" whatever its path (the key check precedes
\* the endpoint check); no limiter exists for such a key, its arrival leaves
\* every limiter and reservoir as it was, and it is never admitted nor sent
\* upstream.
C5_UnknownKeyRejected == [](C5_State) /\ [][C5_Step]_vars

\* A request with an unknown or blank key and a path that is not
\* allowlisted has been answered.
C5_Witness ==
  \E r \in ReqIds :
    /\ req[r].pc = "done" /\ ~KnownKey(r) /\ req[r].status = 403
    /\ cfg.al.enabled /\ req[r].url = EP_models

\* The path the endpoint set is consulted with: the query string stripped,
\* "/v1" prepended when the path does not begin with "/v1/".
NormalizedPath(url) ==
  LET path == BeforeQuery(url)
  IN IF Len(path) >= 3 /\ path[1] = "/" /\ path[2] = "v1" /\ path[3] = "/"
     THEN path ELSE <<"/", "v1">> \o path

\* C6: with the allowlist enabled, an authenticated request whose normalized
\* path is not in the endpoint set is answered 403 "Endpoint not allowed",
\* and is neither admitted by the scheduler nor sent upstream.
C6_EndpointNotAllowed ==
  \A r \in ReqIds :
    (Arrived(r) /\ KnownKey(r) /\ cfg.al.enabled
       /\ NormalizedPath(req[r].url) \notin cfg.al.endpoints) =>
      /\ req[r].pc = "done" /\ req[r].status = 403
      /\ req[r].error = "Endpoint not allowed"
      /\ Untouched(r)

\* An authenticated request for a path with a query string that, normalized,
\* is not allowlisted has been answered.
C6_Witness ==
  \E r \in ReqIds :
    /\ req[r].pc = "done" /\ KnownKey(r) /\ cfg.al.enabled
    /\ req[r].url = EP_models \o <<"?", "x">>
    /\ req[r].status = 403

\* r is an authenticated JSON request for an allowed endpoint.
JsonRequest(r) ==
  /\ Arrived(r) /\ KnownKey(r) /\ req[r].ctype = JsonType
  /\ isEndpointAllowed(cfg.al, req[r].url)
DisallowedModel(r) ==
  /\ HasField(req[r].received, "model")
  /\ req[r].received["model"] # ""
  /\ req[r].received["model"] \notin cfg.al.models

\* C7: with the allowlist enabled (from the config file or from the built-in
\* defaults), a JSON request whose model is non-empty and not in the model
\* set is never sent upstream, and its answer (unless the scheduler rejected
\* it) is 403.
C7_ModelNotAllowed ==
  \A r \in ReqIds :
    (JsonRequest(r) /\ cfg.al.enabled /\ DisallowedModel(r)) =>
      /\ req[r].upPath = <<>>
      /\ (req[r].pc = "done" /\ req[r].status # 503) => req[r].status = 403

\* r is a JSON request without a model field whose body has been sent
\* upstream.
SentWithoutModel(r) ==
  /\ JsonRequest(r) /\ ~HasField(req[r].received, "model")
  /\ req[r].upPath # <<>>
DefaultModelSent(r) ==
  /\ DOMAIN req[r].upBody = DOMAIN req[r].received \cup {"model"}
  /\ req[r].upBody["model"] = cfg.al.default_model
  /\ \A f \in DOMAIN req[r].received : req[r].upBody[f] = req[r].received[f]
  /\ req[r].body = req[r].received

\* C8 as stated: every JSON body without a model field goes upstream with
\* model = default_model, otherwise equal, the original left unchanged.
C8_DefaultModelAlways ==
  \A r \in ReqIds : SentWithoutModel(r) => DefaultModelSent(r)

\* C8, amended: with the allowlist enabled, every JSON body without a model
\* field goes upstream with model = default_model, otherwise equal, the
\* original left unchanged.
C8_DefaultModelWhenEnabled ==
  \A r \in ReqIds :
    (cfg.al.enabled /\ SentWithoutModel(r)) => DefaultModelSent(r)

\* With the allowlist enabled, a body without a model field has gone
\* upstream.
C8_Witness ==
  \E r \in ReqIds :
    /\ cfg.al.enabled /\ SentWithoutModel(r)
    /\ req[r].upBody["model"] = "gpt-4o-mini"

(***************************************************************************)
(* Properties: retry.                                                      *)
(***************************************************************************)
\* The attempts of the call that have ended, and whether the i-th of them
\* was followed by another attempt.
Attempts == 1..Len(call.log)
Followed(i) ==
  i < Len(call.log) \/ (i = Len(call.log) /\ call.pc \in {"sleeping", "attempting"})
RetryableOutcome(out) ==
  \/ out.code = "" /\ out.status \in {429, 500, 502, 503, 504}
  \/ out.code \in {"ECONNRESET", "ECONNREFUSED", "TIMEOUT"}

\* C9: in makeRequest the i-th attempt is followed by another one exactly
\* when fewer than maxRetries retries have been made (i - 1 < maxRetries, the
\* maxRetries of the client's retry configuration) and the attempt ended in
\* 429, 500, 502, 503, 504 or in ECONNRESET, ECONNREFUSED, TIMEOUT; a 2xx, a
\* 400/401/403/404 or a DNS failure on the first attempt ends the call after
\* that one attempt.
C9_RetryIff ==
  /\ \A i \in Attempts :
       Followed(i) <=>
         (i - 1 < call.retryConfig.maxRetries /\ RetryableOutcome(call.log[i]))
  /\ (Len(call.log) >= 1 /\ ~RetryableOutcome(call.log[1])) =>
       (Len(call.log) = 1 /\ call.pc \in {"returned", "thrown"})

\* A 503 was retried, the retry met a DNS failure and the call ended there.
C9_Witness ==
  /\ Len(call.log) = 2 /\ call.pc = "thrown"
  /\ call.log[1].status = 503 /\ call.log[2].code = "ENOTFOUND"

\* C10: a call on a client configured with maxRetries = m >= 0 issues at most
\* m + 1 attempts, and exactly m + 1 when it has ended and every attempt
\* failed with a retryable outcome.
C10_AttemptsBounded ==
  (call.pc # "idle" /\ call.configured.has) =>
    /\ Len(call.log) + (IF call.pc = "attempting" THEN 1 ELSE 0)
         <= call.configured.maxRetries + 1
    /\ (call.pc \in {"returned", "thrown"}
          /\ \A i \in Attempts : RetryableOutcome(call.log[i])) =>
         Len(call.log) = call.configured.maxRetries + 1

(***************************************************************************)
(* Properties: retry delay.                                                *)
(***************************************************************************)
\* The header value is an integer number of seconds, and that number.
WholeSeconds(ra) == ra # <<>> /\ \A i \in 1..Len(ra) : ra[i] \in Digits
RECURSIVE Seconds(_)
Seconds(ra) ==
  IF ra = <<>> THEN 0
  ELSE Seconds(SubSeq(ra, 1, Len(ra) - 1)) * 10
       + (CHOOSE d \in 0..9 : DigitValue(ra[Len(ra)]) = d)
RECURSIVE SumSeq(_)
SumSeq(q) == IF q = <<>> THEN 0 ELSE Head(q) + SumSeq(Tail(q))
Is429After1(out) ==
  out.code = "" /\ out.status = 429 /\ out.retryAfter = <<"1">>

\* C11: the wait after an attempt that ended in a response carrying
\* Retry-After: N (N whole seconds) is min(N * 1000, maxDelay) ms; the wait
\* after an attempt without the header is the backoff of that attempt,
\* whatever earlier attempts carried; and two 429s with Retry-After: 1
\* followed by a 200 are exactly 3 attempts with 2 s of waiting.
C11_RetryAfterHonoured ==
  /\ \A i \in 1..Len(call.waits) :
       LET out == call.log[i]
       IN /\ (out.code = "" /\ WholeSeconds(out.retryAfter)) =>
               call.waits[i] = Min(Seconds(out.retryAfter) * 1000, DefaultMaxDelay)
          /\ (out.code # "" \/ out.retryAfter = <<>>) =>
               \E j \in 0..999 :
                 call.waits[i] =
                   Min(DefaultBaseDelay * Pow2(i - 1) + j, DefaultMaxDelay)
  /\ (Len(call.log) >= 3 /\ Is429After1(call.log[1]) /\ Is429After1(call.log[2])
        /\ call.log[3].status = 200) =>
       /\ Len(call.log) = 3 /\ call.pc = "returned"
       /\ SumSeq(call.waits) >= 2000

\* Two 429s with Retry-After: 1, then a 200.
C11_Witness ==
  /\ Len(call.log) = 3 /\ Is429After1(call.log[1]) /\ Is429After1(call.log[2])
  /\ call.log[3].status = 200 /\ call.pc = "returned"
  /\ call.waits = <<1000, 1000>>

(***************************************************************************)
(* Properties: idempotency key.                                            *)
(***************************************************************************)
Mutating == RequestMethod(call.options) \in {"POST", "PUT", "PATCH"}
AlphaNum == Digits \cup {"a", "b", "c", "x"}
\* k reads req_<digits>_<letters and digits>.
GeneratedForm(k) ==
  \E i \in 5..Len(k) :
    /\ SubSeq(k, 1, 4) = <<"r", "e", "q", "_">>
    /\ i > 5 /\ k[i] = "_" /\ i < Len(k)
    /\ \A j \in 5..(i - 1) : k[j] \in Digits
    /\ \A j \in (i + 1)..Len(k) : k[j] \in AlphaNum
\* The key generated for the client's previous call.
PreviousKey == generateIdempotencyKey(call.previous.now, call.previous.random)
AttemptsIssued == Len(call.log) + (IF call.pc = "attempting" THEN 1 ELSE 0)
\* Every attempt issued so far carried the key k.
AllCarry(k) ==
  /\ Len(call.sent) = AttemptsIssued
  /\ \A i \in 1..Len(call.sent) : call.sent[i] = k
KeyFixed ==
  IF call.options.idempotencyKey # <<>>
  THEN AllCarry(call.options.idempotencyKey)
  ELSE /\ GeneratedForm(call.sent[1])
       /\ AllCarry(call.sent[1])

MultipartRequest(r) == Arrived(r) /\ isMultipartEndpoint(req[r])

C14_DrainBeforeExit ==
  /\ proc.phase # "up" =>
       \A r \in ReqIds : r >= proc.first => ~req[r].ran
  /\ proc.phase = "exited" =>
       \A r \in proc.held : req[r].pc = "done" /\ req[r].ran

(***************************************************************************)
(* Properties: error responses.                                            *)
(***************************************************************************)
\* C15: a request rejected with QUEUE_OVERFLOW is answered 503 with the
\* response header Retry-After: 30, once.
C15_OverflowRetryAfter ==
  \A r \in ReqIds :
    (req[r].pc = "done" /\ req[r].error = "QUEUE_OVERFLOW") =>
      /\ req[r].status = 503
      /\ [name |-> "Retry-After", value |-> "30"] \in req[r].resHeaders
      /\ req[r].responses = 1

\* The buffered upstream call of request r ended in a transport error.
EndedIn(r, codes) ==
  /\ req[r].pc = "done" /\ req[r].shape \in {"json", "multipart"}
  /\ req[r].upStatus = 0 /\ req[r].upCode \in codes

\* C16: a buffered JSON request whose upstream call ends in a timeout after
\* the retries is answered 504.
C16_TimeoutIs504 ==
  \A r \in ReqIds :
    (EndedIn(r, {"TIMEOUT"}) /\ req[r].shape = "json") => req[r].status = 504

\* C17: a buffered JSON or multipart request whose upstream call ends in a
\* transport error without status is answered 502 with the body
\* {error: {message, type, code}}, once.
C17_TransportErrorIs502 ==
  \A r \in ReqIds :
    EndedIn(r, {"ECONNREFUSED", "ECONNRESET"}) =>
      /\ req[r].status = 502
      /\ DOMAIN req[r].resBody = {"error"}
      /\ DOMAIN req[r].resBody.error = {"message", "type", "code"}
      /\ req[r].resBody.error.code = req[r].upCode
      /\ req[r].responses = 1

\* Both a JSON and a multipart request can end that way; the multipart one
\* had files staged.
C17_Witness ==
  \E r \in ReqIds :
    /\ EndedIn(r, {"ECONNRESET"}) /\ req[r].shape = "multipart"
    /\ req[r].files # {}

(***************************************************************************)
(* Properties: key store.                                                  *)
(***************************************************************************)
\* C18: after a reload that failed, every key that was loaded before it
\* still maps to its principal.
C18_FailedReloadKeepsKeys ==
  proc.reload.failed =>
    \A k \in DOMAIN proc.reload.before :
      lookupUser(VALID_KEYS, k) = proc.reload.before[k]

(***************************************************************************)
(* Properties: upload limit.                                               *)
(***************************************************************************)
\* C19: a principal never has more than UPLOAD_RATE_LIMIT multipart
\* uploads in progress (slot taken, handler not yet exited), and an upload
\* that starts when the principal has that many in progress is answered
\* 429 without being parsed or forwarded.
C19_UploadsBounded ==
  /\ \A u \in AllKeys : Cardinality(UploadsInProgress(u)) <= UPLOAD_RATE_LIMIT
  /\ \A r \in ReqIds :
       (req[r].ran /\ isMultipartEndpoint(req[r])
        /\ req[r].uploadsBefore >= UPLOAD_RATE_LIMIT) =>
         /\ req[r].pc = "done" /\ req[r].status = 429
         /\ req[r].files = {} /\ req[r].upPath = <<>>

(***************************************************************************)
(* Properties: streaming.                                                  *)
(***************************************************************************)
RECURSIVE Flatten(_)
Flatten(chunks) ==
  IF chunks = <<>> THEN <<>> ELSE Head(chunks) \o Flatten(Tail(chunks))

\* The data: frames of the stream of request r that parse, in order.
Frames(r) ==
  SelectSeq(Flatten(req[r].upChunks), LAMBDA l : l.data /\ l.json)
UsageFrames(r) == SelectSeq(Frames(r), LAMBDA l : l.usage.has)
ModelFrames(r) == SelectSeq(Frames(r), LAMBDA l : l.model # "")

\* The last non-zero value of field f among the usage frames, else 0.
RECURSIVE LatestNonZero(_, _)
LatestNonZero(frames, f) ==
  IF frames = <<>> THEN 0
  ELSE LET u == frames[Len(frames)].usage
       IN IF u[f] # 0 THEN u[f]
          ELSE LatestNonZero(SubSeq(frames, 1, Len(frames) - 1), f)

LatestModel(r) ==
  IF ModelFrames(r) # <<>> THEN ModelFrames(r)[Len(ModelFrames(r))].model
  ELSE IF Truthy(req[r].upBody, "model") THEN req[r].upBody["model"]
  ELSE "unknown"

Streamed200(r) ==
  req[r].shape = "stream" /\ req[r].upStatus = 200
  /\ req[r].pc \in {"streaming", "done"}

\* What is written downstream is the upstream chunks in order, as
\* text/event-stream; nothing is recorded before the end, and at most one
\* record at the end.
PassThrough(r) ==
  /\ req[r].down = req[r].upChunks
  /\ [name |-> "Content-Type", value |-> "text/event-stream"] \in req[r].resHeaders
  /\ req[r].pc = "streaming" => req[r].usageLog = <<>>
  /\ req[r].pc = "done" => req[r].status = 200 /\ req[r].responses = 1
  /\ Len(req[r].usageLog) <= 1

RedactStrings ==
  { JsonString(mime, run, pad) :
      mime \in {<<>>, Png, Gif}, run \in {40, 100, 150}, pad \in {0, 1} }

Role == Entry("role", JsonString(<<>>, 4, 0))
\* messages: [{role, <key>: value}]
Message(key, value) == JsonArray(<<JsonObject(<<Role, Entry(key, value)>>)>>)
\* content: [{type: "image_url", image_url: {url: value}}]
ImageUrlPart(value) ==
  JsonArray(<<JsonObject(<<Entry("type", JsonString(<<>>, 5, 4)),
                           Entry("image_url",
                                 JsonObject(<<Entry("url", value)>>))>>)>>)

RedactMessages ==
  UNION { { Message(key, v) : key \in {"image", "data", "content", "url"} }
          \cup { Message("content", ImageUrlPart(v)),
                 Message("content", JsonArray(<<v>>)) } : v \in RedactStrings }

RedactInputs ==
  { [headers |-> ValidHeader, url |-> EP_chat, ctype |-> JsonType,
     body |-> [f \in {"model", "messages"} |->
                 IF f = "model" THEN "gpt-4o-mini" ELSE m]] :
      m \in RedactMessages }

NextRedact ==
  \/ \E in \in RedactInputs : Arrive(in, MaxPolicyReq)
  \/ JsonPipeline(Success)

SpecRedact == InitPolicy /\ [][NextRedact]_vars

\* The longest piece of a base64 run that a JSON value holds.
RECURSIVE LongestRun(_)
LongestRun(v) ==
  IF v.t = "string" THEN v.run
  ELSE LET runs == { LongestRun(v.kids[i].value) : i \in DOMAIN v.kids }
       IN IF runs = {} THEN 0 ELSE CHOOSE n \in runs : \A m \in runs : m <= n

\* The value holds a data-URL image ("data:image/<mime>;base64," and a run).
RECURSIVE HoldsImage(_)
HoldsImage(v) ==
  IF v.t = "string" THEN v.mime # <<>>
  ELSE \E i \in DOMAIN v.kids : HoldsImage(v.kids[i].value)

\* C21: the access-log line written for a JSON request whose body holds
\* base64 image data anywhere in its structure has no more than 32
\* consecutive characters of that base64 run.
C21_LogHidesImages ==
  \A r \in ReqIds :
    (Len(req[r].accessLog) > 0 /\ HoldsImage(req[r].body["messages"]))
      => LongestRun(req[r].accessLog[1]["messages"]) <= 32

(***************************************************************************)
(* Usage records: buffered responses with and without usage and model,    *)
(* and streams whose frames carry them.                                    *)
(***************************************************************************)
UsageInputs ==
  { [headers |-> ValidHeader, url |-> EP_chat, ctype |-> JsonType, body |-> b] :
      b \in {Body("gpt-4o-mini"), StreamBody("gpt-4o-mini")} }

UsageOutcomes ==
  { [status |-> st, code |-> "", usage |-> [prompt |-> u[1], completion |-> u[2]],
     model |-> m] :
      st \in {200, 500}, u \in {<<0, 0>>, <<2, 1>>},
      m \in {"", "gpt-4o-mini"} }
  \cup { [status |-> 0, code |-> "ECONNRESET",
          usage |-> [prompt |-> 0, completion |-> 0], model |-> ""] }

UsageChunks ==
  { <<DataLine(Usage(2, 1, 3), "gpt-4o-mini")>>,
    <<DataLine(Usage(2, 1, 0), "gpt-4o-mini")>>,
    <<DataLine(NoUsage, "gpt-4o-mini"), DoneLine>> }

NextUsage ==
  \/ \E in \in UsageInputs : Arrive(in, MaxPolicyReq)
  \/ JsonPipeline(UsageOutcomes)
  \/ StreamPipeline(UpstreamOutcomes)
  \/ \E r \in ReqIds, chunk \in UsageChunks : streamData(r, chunk)

SpecUsage == InitPolicy /\ [][NextUsage]_vars

\* The response handled for r was a successful one whose model is defined
\* and not "unknown" and whose token total is greater than zero.
Billable(r) ==
  /\ req[r].upStatus > 0 /\ req[r].upStatus < 400
  /\ req[r].model \notin {"", "unknown"}
  /\ req[r].usage.prompt + req[r].usage.completion > 0

\* C22: a usage record is written for a request if and only if the response
\* handled was a successful one whose model is defined and not "unknown" and
\* whose token total is greater than zero; at most one record is written per
\* request, and the condition is the same on the buffered and the streaming
\* path.
C22_UsageRecordIff ==
  \A r \in ReqIds :
    /\ Len(req[r].usageDb) <= 1
    /\ req[r].pc = "done" => (Len(req[r].usageDb) = 1 <=> Billable(r))

(***************************************************************************)
(* Upstream credentials: clients that send their proxy key in different   *)
(* headers, with or without an Authorization header of their own.         *)
(***************************************************************************)
ClientAuthorization == Bearer(<<"sk-client">>)
AuthHeaders ==
  { Header("api-key", Key1),
    Header("authorization", Key2),
    [Header("x-api-key", Key2) EXCEPT !["authorization"] = ClientAuthorization] }

AuthInputs ==
  { [headers |-> h, url |-> sh.url, ctype |-> sh.ctype, body |-> sh.body] :
      h \in AuthHeaders,
      sh \in { [url |-> EP_chat, ctype |-> JsonType, body |-> Body("gpt-4o-mini")],
               [url |-> EP_chat, ctype |-> JsonType, body |-> StreamBody("gpt-4o-mini")],
               [url |-> EP_transcriptions, ctype |-> MultipartType,
                body |-> FormBody("gpt-4o-mini")] } }

InitAuth ==
  /\ cfg = [rl |-> rateLimitConfig, al |-> AllowlistFromFile]
  /\ InitStateOf(1..MaxAuthReq)
  /\ call = IdleCall

NextAuth ==
  \/ \E in \in AuthInputs : Arrive(in, MaxAuthReq)
  \/ JsonPipeline(Success)
  \/ StreamPipeline(Success)
  \/ UploadPipeline(Success, {"none"}, {{"t1"}})

SpecAuth == InitAuth /\ [][NextAuth]_vars

\* An upstream request has been made for r.
SentUpstream(r) == DOMAIN req[r].upHeaders # {}
\* What the client sent as credentials: its header values and the key
\* taken from them.
ClientCredentials(r) ==
  ({ req[r].headers[n] : n \in HeaderNames } \cup {req[r].key}) \ {<<>>}
SameButCredentials(r1, r2) ==
  /\ req[r1].url = req[r2].url /\ req[r1].ctype = req[r2].ctype
  /\ DOMAIN req[r1].body = DOMAIN req[r2].body /\ req[r1].body = req[r2].body

WorkStarted(r) == req[r].pc \in {"gadmitted", "parsing", "upstream", "streaming"}

\* C24: a request's unit of running at the per-user and at the global limiter
\* is released only when the request reaches Terminated: every request that
\* was admitted and whose response has not been written still counts in
\* running, a stream until the upstream stream has ended and a multipart
\* request until its upstream response has been forwarded.
C24_SlotsHeldUntilTerminated ==
  /\ globalLimiter.running >= Cardinality({r \in ReqIds : WorkStarted(r)})
  /\ \A u \in Principals :
       userLimiters[u].running >=
         Cardinality({r \in Mine(u) : req[r].admitted /\ req[r].pc # "done"})

\* The streaming call of r failed before upstream headers arrived, with a
\* retryable transport error.
FailedBeforeHeaders(r) ==
  /\ req[r].shape = "stream" /\ req[r].pc = "done"
  /\ req[r].error = "streaming_error"
  /\ req[r].upCode \in retryableErrorCodes

\* C25: a streaming call that fails before upstream headers arrive with
\* ECONNRESET, ECONNREFUSED or TIMEOUT is retried under the retry policy (it
\* is given up only after more than one upstream request), and once the
\* headers of a stream have arrived the call has issued its last request.
C25_StreamRetriedBeforeHeaders ==
  \A r \in ReqIds :
    /\ FailedBeforeHeaders(r) => req[r].streamRequests > 1
    /\ req[r].upStatus # 0 => req[r].streamRequests <= 1 + DefaultMaxRetries

\* The clean-up timer dropped r: limiter.stop() failed it while it was queued
\* or admitted at its per-user limiter, before its work ran.
DroppedByCleanup(r) ==
  req[r].pc = "done" /\ req[r].status = 500 /\ ~req[r].ran

\* C26: a per-user limiter is stopped and removed only when it has no running
\* job and an empty queue: no request finds its limiter removed while its
\* job is running there (stale), and no queued job is dropped by the
\* clean-up.
C26_CleanupOnlyWhenIdle ==
  \A r \in ReqIds : ~req[r].stale /\ ~DroppedByCleanup(r)

\* The requests that the per-user limiter of u, or the global limiter,
\* admits in a step.
UserAdmittedNow(u) ==
  {r \in ReqIds : req'[r].key = u /\ ~req[r].admitted /\ req'[r].admitted}
GlobalAdmittedNow ==
  {r \in ReqIds : req[r].pc # "gadmitted" /\ req'[r].pc = "gadmitted"}

C27_State ==
  /\ globalLimiter.reservoir >= 0 /\ globalLimiter.reservoir <= cfg.rl.grpm
  /\ \A u \in AllKeys :
       userLimiters[u].has =>
         userLimiters[u].reservoir >= 0 /\ userLimiters[u].reservoir <= cfg.rl.urpm
C27_Step ==
  /\ globalLimiter'.reservoir =
       (IF MinutePasses THEN cfg.rl.grpm ELSE globalLimiter.reservoir)
         - Cardinality(GlobalAdmittedNow)
  /\ \A u \in AllKeys :
       userLimiters'[u].has =>
         userLimiters'[u].reservoir =
           (IF ~userLimiters[u].has \/ MinutePasses
            THEN cfg.rl.urpm ELSE userLimiters[u].reservoir)
             - Cardinality(UserAdmittedNow(u))

\* C27: a limiter debits its reservoir by exactly one for each admission and
\* by nothing at enqueue time or for a submission rejected for overflow
\* (a step changes the reservoir by the number of jobs admitted in it, from
\* refresh_amount when the step is a refill tick or creates the limiter);
\* the reservoir is never below 0 and never above refresh_amount.
C27_ReservoirDebit == [](C27_State) /\ [][C27_Step]_vars

\* A limiter that has been through a refill tick, had a submission rejected
\* for overflow and then admitted the job that waited in its queue: its
\* reservoir is one below refresh_amount.
C27_Witness ==
  \E u \in Principals :
    /\ userLimiters[u].has /\ userLimiters[u].life >= 1
    /\ userLimiters[u].reservoir = cfg.rl.urpm - 1
    /\ userLimiters[u].running = 1 /\ userLimiters[u].queue = <<>>
    /\ \E r \in Mine(u) : Overflowed(r)

(***************************************************************************)
(* Admission order: limiters that hold several jobs of a principal at      *)
(* once, in the queue and admitted.                                        *)
(***************************************************************************)
fifoRateLimitConfig ==
  [uc |-> 2, uq |-> 2, urpm |-> 60, gc |-> 1, gq |-> 3, grpm |-> 800]
FifoInputs ==
  { [headers |-> Header("api-key", k), url |-> EP_chat, ctype |-> JsonType,
     body |-> Body("gpt-4o-mini")] : k \in Principals }

InitFifo ==
  /\ cfg = [rl |-> fifoRateLimitConfig, al |-> AllowlistFromFile]
  /\ InitStateOf(1..MaxClockReq)
  /\ call = IdleCall

NextFifo ==
  \/ \E in \in FifoInputs : Arrive(in, MaxClockReq)
  \/ JsonPipeline(Success)

SpecFifo == InitFifo /\ [][NextFifo]_vars

\* r was taken into its per-user limiter's queue and was not dropped by the
\* global limiter afterwards.
Enqueued(r) ==
  /\ req[r].pc # "idle" /\ KnownKey(r)
  /\ ~(req[r].pc = "done" /\ ~req[r].ran)

\* C28: within one limiter requests are admitted in the order they were
\* submitted: of two requests of a principal that were enqueued, the later
\* one is not admitted by the per-user limiter, and its work does not start,
\* before the earlier one's.
C28_FifoPerLimiter ==
  \A a, b \in ReqIds :
    (a < b /\ req[a].key = req[b].key /\ Enqueued(a) /\ Enqueued(b)) =>
      /\ req[b].admitted => req[a].admitted
      /\ req[b].ran => req[a].ran

\* Four requests of one principal: the first is answered, the second and
\* the third have been admitted in turn (the second's work has started),
\* the fourth waits in the queue.
C28_Witness ==
  \E u \in Principals :
    /\ \A r \in 1..4 : req[r].key = u
    /\ req[1].pc = "done" /\ req[1].status = 200
    /\ req[2].pc = "upstream" /\ req[3].pc = "gqueued" /\ req[4].pc = "uqueued"

(***************************************************************************)
(* Progress.  The event loop runs every callback that is ready and every   *)
(* timer that is due, and every upstream call ends: each step of each      *)
(* request, the refresh tick and the clean-up timers are weakly fair.      *)
(***************************************************************************)
ClockFairness ==
  /\ \A r \in 1..MaxClockReq :
       /\ WF_vars(GlobalSubmit(r))
       /\ WF_vars(processRequestJson(r))
       /\ WF_vars(\E out \in Success : jsonResponse(r, out))
  /\ WF_vars(MinutePasses)
  /\ \A u \in Principals : WF_vars(Cleanup(u))

SpecClockFair == SpecClock /\ ClockFairness

\* C29: under fair scheduling, with every upstream call ending and every
\* reservoir refilled each interval, every request accepted into a limiter
\* queue is eventually admitted at the per-user and at the global limiter
\* (its work runs) and answered.
C29_AcceptedEventuallyServed ==
  \A r \in 1..MaxClockReq :
    (req[r].pc = "uqueued") ~> (req[r].pc = "done" /\ req[r].ran)

\* C30: a submission made after the drain has begun fails with
\* ShutdownInProgress and the client is answered 503.
C30_SubmissionAfterDrainIs503 ==
  proc.phase # "up" =>
    \A r \in ReqIds :
      (r >= proc.first /\ KnownKey(r) /\ req[r].pc # "idle") =>
        /\ req[r].pc = "done" => req[r].status = 503
        /\ ~req[r].ran

(***************************************************************************)
(* Queue overflow at either limiter: two slots and a queue of one per      *)
(* principal, one slot and a queue of one at the global limiter.           *)
(***************************************************************************)
dropRateLimitConfig ==
  [uc |-> 2, uq |-> 1, urpm |-> 60, gc |-> 1, gq |-> 1, grpm |-> 800]

InitDrop ==
  /\ cfg = [rl |-> dropRateLimitConfig, al |-> AllowlistFromFile]
  /\ InitStateOf(1..MaxClockReq)
  /\ call = IdleCall

NextDrop ==
  \/ \E in \in FifoInputs : Arrive(in, MaxClockReq)
  \/ JsonPipeline(Success)

SpecDrop == InitDrop /\ [][NextDrop]_vars

\* C31: each queue-overflow rejection emits one dropped-request metric event
\* whose limiter_type names the limiter whose queue overflowed: "user" for a
\* request the per-user limiter dropped, "global" for one that the per-user
\* limiter had admitted and the global limiter dropped.
C31_DroppedMetricNamesLimiter ==
  \A r \in ReqIds :
    (req[r].pc = "done" /\ req[r].error = "QUEUE_OVERFLOW") =>
      req[r].droppedRequests =
        <<IF req[r].admitted THEN "global" ELSE "user">>

(***************************************************************************)
(* Body classification: every method, path and Content-Type.              *)
(***************************************************************************)
ClassifyInputs ==
  { [headers |-> ValidHeader, url |-> url, ctype |-> ctype, method |-> method,
     body |-> IF ctype = MultipartType THEN FormBody("gpt-4o-mini")
              ELSE Body("gpt-4o-mini")] :
      url \in {EP_chat, EP_transcriptions},
      ctype \in {JsonType, MultipartType, "text/plain"},
      method \in {"GET", "POST", "PUT"} }

NextClassify ==
  \/ \E in \in ClassifyInputs : Arrive(in, MaxPolicyReq)
  \/ JsonPipeline(Success)
  \/ UploadPipeline(Success, {"none"}, {{"t1"}})

SpecClassify == InitPolicy /\ [][NextClassify]_vars

\* C32: a request whose method is not POST, or whose Content-Type is JSON,
\* takes the JSON path; the multipart path is taken only by a POST whose
\* path contains /audio/ and whose Content-Type is multipart/form-data;
\* every request whose work ran took exactly one of the two.
C32_Classification ==
  \A r \in ReqIds :
    req[r].ran =>
      /\ req[r].handler \in {"handleJsonRequest", "handleMultipartRequest"}
      /\ (req[r].method # "POST" \/ req[r].ctype = JsonType)
            => req[r].handler = "handleJsonRequest"
      /\ req[r].handler = "handleMultipartRequest" =>
            /\ req[r].method = "POST"
            /\ Includes(req[r].url, <<"/", "audio", "/">>)
            /\ req[r].ctype = MultipartType

(***************************************************************************)
(* A client that goes away while its request waits for a limiter.         *)
(***************************************************************************)
Waiting == {"uqueued", "uadmitted", "gqueued"}

\* The socket of request r closes.  The handler registers no listener on
\* the request or the response and scheduleRequest takes no cancellation
\* signal, so the job submitted to the limiter is left as it is.
clientClose(r) ==
  /\ req[r].pc \in Waiting
  /\ req[r].closedAt = ""
  /\ req' = [req EXCEPT ![r].closedAt = req[r].pc]
  /\ UNCHANGED <<proc, call, cfg, VALID_KEYS, nextId, userLimiters,
                 globalLimiter, activeUploads, admissions>>

NextCancel ==
  \/ \E in \in ClockInputs : Arrive(in, MaxReq)
  \/ JsonPipeline(Success)
  \/ \E r \in ReqIds : clientClose(r)

SpecCancel == Init /\ [][NextCancel]_vars

\* C33: a request whose client disconnected while it waited in a limiter
\* queue is no longer in any limiter queue, holds no slot (no reservoir unit
\* was taken for it) and its upstream work never runs.
C33_DisconnectedWaiterCancelled ==
  \A r \in ReqIds :
    req[r].closedAt \in {"uqueued", "gqueued"} =>
      /\ \A u \in AllKeys : r \notin SeqToSet(userLimiters[u].queue)
      /\ r \notin SeqToSet(globalLimiter.queue)
      /\ ~req[r].admitted
      /\ ~req[r].ran

\* The weaker statement that the work of such a request never runs.
C33_NoUpstreamCall ==
  \A r \in ReqIds : req[r].closedAt \in {"uqueued", "gqueued"} => ~req[r].ran

(***************************************************************************)
(* What a buffered call surfaces when its retries are used up.            *)
(***************************************************************************)
FailedOutcome(o) == o.code # "" \/ o.status >= 400
RetriesExhausted ==
  /\ call.pc \in {"returned", "thrown"}
  /\ Len(call.log) = call.retryConfig.maxRetries + 1
  /\ FailedOutcome(call.log[Len(call.log)])

\* C34: when every attempt the retry budget allows has been made and the
\* last one failed, the caller receives the error of that last attempt: an
\* error carrying the last response (status, headers, body) when the last
\* attempt returned an HTTP failure, the last transport error itself
\* otherwise; never the error of an earlier attempt.
C34_LastAttemptSurfaced ==
  RetriesExhausted =>
    LET n == Len(call.log)
        last == call.log[n]
    IN call.surfaced =
         IF last.code = "" THEN httpError(last, n - 1)
         ELSE transportError(last, n - 1)

\* Retries were made, the first and the last attempt failed differently,
\* and the last one was an HTTP failure.
C34_Witness ==
  /\ RetriesExhausted
  /\ Len(call.log) >= 2
  /\ call.log[1].code # ""
  /\ call.log[Len(call.log)].status = 429
  /\ call.surfaced.kind = "http"

(***************************************************************************)
(* Retry delays for every backoff configuration and Retry-After value.    *)
(***************************************************************************)
\* Clients built with and without baseDelay and maxDelay (0 is an absent
\* field): the default, one whose backoff stays below maxDelay and one
\* whose backoff passes it at the second retry.
DelayConfigs ==
  { [has |-> TRUE, maxRetries |-> 2,
     enableIdempotency |-> "undefined", baseDelay |-> b, maxDelay |-> d] :
      b \in {0, 1000, 20000}, d \in {0, 1500, 30000} }

\* Retry-After values of a response: none, whole seconds below and above
\* maxDelay, zero, negative, very large, padded, followed by other
\* characters, and not a number.
DelayRetryAfterValues ==
  RetryAfterValues \cup
    { <<"-", "5">>, <<"9", "9", "9", "9", "9">>, <<" ", "3">>, <<"-">> }
DelayOutcomes ==
  { [status |-> st, code |-> "", retryAfter |-> ra] :
      st \in {200, 429, 503}, ra \in DelayRetryAfterValues }
  \cup { [status |-> 0, code |-> "ECONNRESET", retryAfter |-> <<>>] }

InitDelay ==
  /\ cfg = [rl |-> rateLimitConfig, al |-> AllowlistFromFile]
  /\ InitState
  /\ call \in {NewCall(c, DefaultOptions, NoStamp, NoStamp) : c \in DelayConfigs}

NextDelay ==
  \/ \E out \in DelayOutcomes, jitter \in Jitters : executeRequest(out, jitter)
  \/ sleepDone

SpecDelay == InitDelay /\ [][NextDelay]_vars

\* The failed attempt carries no Retry-After that reads as an integer.
NoIntegerRetryAfter(out) ==
  out.code # "" \/ out.retryAfter = <<>> \/ parseInt(out.retryAfter).nan
BackoffFloor(n) ==
  Min(call.retryConfig.maxDelay, call.retryConfig.baseDelay * Pow2(n))
BackoffCeiling(n) ==
  Min(call.retryConfig.maxDelay, call.retryConfig.baseDelay * Pow2(n) + 1000)

C39_DelayWithinBounds ==
  \A i \in 1..Len(call.waits) :
    /\ 0 <= call.waits[i]
    /\ call.waits[i] <= call.retryConfig.maxDelay

(***************************************************************************)
(* Metrics and access log of the requests that end in an error of the     *)
(* proxy itself.                                                           *)
(***************************************************************************)
\* Requests of one principal and of a stranger: to a path that is and is
\* not allowlisted, with a model that is and is not, as JSON and as an
\* upload.
AuditInputs ==
  { [headers |-> h, url |-> EP_chat, ctype |-> JsonType,
     body |-> Body("gpt-4o-mini")] :
      h \in {ValidHeader, Header("api-key", KeyUnknown)} }
  \cup
  { [headers |-> ValidHeader, url |-> u, ctype |-> JsonType, body |-> Body("gpt-4")] :
      u \in {EP_chat, EP_models} }
  \cup
  { [headers |-> ValidHeader, url |-> EP_transcriptions, ctype |-> MultipartType,
     body |-> b] : b \in {FormBody("gpt-4o-mini"), FormBody("whisper-1")} }

NextAudit ==
  \/ \E in \in AuditInputs : Arrive(in, MaxReq)
  \/ JsonPipeline(Success)
  \/ UploadPipeline(Success, {"none", "multer"}, {{"t1"}})

SpecAudit == Init /\ [][NextAudit]_vars

PolicyOrPipelineErrors ==
  { "Invalid or missing API key", "Endpoint not allowed", "Model not allowed",
    "Too many concurrent uploads", "QUEUE_OVERFLOW",
    "Failed to parse multipart data" }

\* C36: a request answered with a policy or pipeline error (invalid key,
\* endpoint not allowed, model not allowed on the JSON or the multipart
\* path, upload quota, queue overflow, malformed multipart) has incremented
\* the request counter exactly once, under the status it was answered with,
\* and has appended a line to the access log.
C36_ErrorsCountedAndLogged ==
  \A r \in ReqIds :
    (req[r].pc = "done" /\ req[r].error \in PolicyOrPipelineErrors) =>
      /\ req[r].requestsTotal = <<req[r].status>>
      /\ req[r].logLines # <<>>

(***************************************************************************)
(* Completion of the response on the streaming path.                      *)
(***************************************************************************)
\* response.stream.on('error'), the listener installed after the 200
\* headers were written: a 500 is sent only if no headers were sent yet,
\* which is never the case here, so the listener only logs.  After 'error'
\* the stream emits no 'end': no other listener of the request will run.
streamError(r) ==
  /\ req[r].pc = "streaming"
  /\ req[r].upStatus < 400
  /\ req' = [req EXCEPT ![r].pc = "errored"]
  /\ UNCHANGED <<proc, call, cfg, VALID_KEYS, nextId, userLimiters,
                 globalLimiter, activeUploads, admissions>>

StreamFailOutcomes ==
  { [status |-> 200, code |-> ""], [status |-> 429, code |-> ""],
    [status |-> 0, code |-> "ECONNRESET"] }

NextStreamFail ==
  \/ \E in \in StreamInputs : Arrive(in, 2)
  \/ \E r \in ReqIds : GlobalSubmit(r)
  \/ \E r \in ReqIds : processRequestJson(r)
  \/ StreamPipeline(StreamFailOutcomes)
  \/ \E r \in ReqIds : streamData(r, <<DataLine(Usage(2, 1, 3), "")>>)
  \/ \E r \in ReqIds : streamError(r)

SpecStreamFail == Init /\ [][NextStreamFail]_vars

\* The event loop runs every callback that is ready, the upstream answers
\* every call and every upstream stream that does not fail ends.
StreamFairness ==
  \A r \in 1..2 :
    /\ WF_vars(GlobalSubmit(r))
    /\ WF_vars(processRequestJson(r))
    /\ WF_vars(\E out \in StreamFailOutcomes : streamHeaders(r, out))
    /\ WF_vars(streamEnd(r))

SpecStreamFailFair == SpecStreamFail /\ StreamFairness

\* C37: every request that reaches the proxy handler eventually has its
\* response completed (status written, body ended), and no request has
\* more than one; this includes a streaming request whose upstream stream
\* fails after the 200 headers and an upstream error response.
C37_ResponseCompleted ==
  \A r \in 1..2 :
    /\ [](req[r].responses <= 1)
    /\ Arrived(r) ~> (req[r].pc = "done" /\ req[r].responses = 1)

(***************************************************************************)
(* The path checked against the endpoint set and the path sent upstream.  *)
(***************************************************************************)
\* C38: with the allowlist enabled, the path of every upstream call, its
\* query string removed, is a member of the configured endpoint set.
C38_SentPathIsAllowlisted ==
  \A r \in ReqIds :
    (isAllowlistEnabled(cfg.al) /\ req[r].upPath # <<>>) =>
      BeforeQuery(req[r].upPath) \in cfg.al.endpoints

(***************************************************************************)
(* The upstream stream as bytes, and its division into chunks.             *)
(* A stream is a sequence of tokens: the "data: " prefix, the two halves   *)
(* of the JSON text of an event, "[DONE]" and the newline.                 *)
(***************************************************************************)
Events ==
  <<[usage |-> NoUsage, model |-> "gpt-4o-mini-2024-07-18"],
    [usage |-> Usage(2, 1, 3), model |-> ""]>>
Nl == [t |-> "nl", obj |-> 0, part |-> 0]
DataPrefix == [t |-> "data: ", obj |-> 0, part |-> 0]
DoneText == [t |-> "[DONE]", obj |-> 0, part |-> 0]
JsonText(obj, part) == [t |-> "json", obj |-> obj, part |-> part]
EventLine(obj) == <<DataPrefix, JsonText(obj, 1), JsonText(obj, 2), Nl, Nl>>

\* What the upstream sends: a first event with the model, a last event
\* with the usage, then data: [DONE].
UpstreamBytes == EventLine(1) \o EventLine(2) \o <<DataPrefix, DoneText, Nl, Nl>>

\* chunkStr.split('\n'): the pieces between newlines, the last one included.
RECURSIVE split(_, _)
split(bytes, piece) ==
  IF bytes = <<>> THEN <<piece>>
  ELSE IF Head(bytes) = Nl THEN <<piece>> \o split(Tail(bytes), <<>>)
  ELSE split(Tail(bytes), Append(piece, Head(bytes)))

\* One line as the loop body sees it: line.startsWith('data: '),
\* line !== 'data: [DONE]', and JSON.parse(line.substring(6)), which
\* succeeds only on the whole text of an event.
parseLine(line) ==
  LET startsWithData == line # <<>> /\ Head(line) = DataPrefix
      rest == IF line = <<>> THEN <<>> ELSE Tail(line)
      parses == /\ Len(rest) = 2
                /\ rest[1].t = "json" /\ rest[1].part = 1
                /\ rest[2] = JsonText(rest[1].obj, 2)
  IN [data |-> startsWithData /\ rest # <<DoneText>>,
      json |-> startsWithData /\ parses,
      usage |-> IF startsWithData /\ parses THEN Events[rest[1].obj].usage
                ELSE NoUsage,
      model |-> IF startsWithData /\ parses THEN Events[rest[1].obj].model
                ELSE "",
      raw |-> line]

linesOf(bytes) ==
  LET pieces == split(bytes, <<>>)
  IN [i \in 1..Len(pieces) |-> parseLine(pieces[i])]

\* The bytes of a chunk given its lines, and of the chunks received.
RECURSIVE join(_)
join(lines) ==
  IF lines = <<>> THEN <<>>
  ELSE IF Len(lines) = 1 THEN lines[1].raw
  ELSE lines[1].raw \o <<Nl>> \o join(Tail(lines))
RECURSIVE BytesReceived(_)
BytesReceived(chunks) ==
  IF chunks = <<>> THEN <<>>
  ELSE join(Head(chunks)) \o BytesReceived(Tail(chunks))

\* The next chunk is any non-empty run of the bytes not yet received; the
\* stream ends when all were.
NextChunking ==
  \/ \E in \in {[headers |-> ValidHeader, url |-> EP_chat, ctype |-> JsonType,
                  body |-> StreamBody("gpt-4o-mini")]} : Arrive(in, MaxPolicyReq)
  \/ \E r \in ReqIds : GlobalSubmit(r)
  \/ \E r \in ReqIds : processRequestJson(r)
  \/ \E r \in ReqIds : streamHeaders(r, [status |-> 200, code |-> ""])
  \/ \E r \in ReqIds :
       LET got == Len(BytesReceived(req[r].upChunks))
       IN \E n \in 1..(Len(UpstreamBytes) - got) :
            streamData(r, linesOf(SubSeq(UpstreamBytes, got + 1, got + n)))
  \/ \E r \in ReqIds :
       /\ BytesReceived(req[r].upChunks) = UpstreamBytes
       /\ streamEnd(r)

SpecChunking == Init /\ [][NextChunking]_vars

\* What is recorded when the whole stream arrives as one chunk.
RecordedFor(r, bytes) ==
  LET start == [usage |-> [prompt |-> 0, completion |-> 0, total |-> 0],
                model |-> IF Truthy(req[r].upBody, "model")
                          THEN req[r].upBody["model"] ELSE "unknown"]
      acc == scanChunk(start, linesOf(bytes))
  IN IF acc.usage.total > 0
     THEN <<[model |-> acc.model, prompt |-> acc.usage.prompt,
             completion |-> acc.usage.completion]>>
     ELSE <<>>

\* C40: the prompt and completion token counts and the model recorded for
\* a streamed response are those of the concatenated upstream bytes,
\* however the bytes were divided into chunks.
C40_ChunkingIndependent ==
  \A r \in ReqIds :
    (req[r].shape = "stream" /\ req[r].pc = "done" /\ req[r].status = 200) =>
      req[r].usageLog = RecordedFor(r, BytesReceived(req[r].upChunks))

====
